---- MODULE Spec2Model ----
(***************************************************************************)
(* Model of src/main.py: the hybrid document worker (/process), the OCR    *)
(* endpoints (/ocr, /ui/generate), and the overlay compositor (/overlay),  *)
(* together with the pure functions they are built from.                   *)
(*                                                                         *)
(* Strings are sequences of characters (one-character strings).  Texts are *)
(* built by concatenating words of a small vocabulary, and every string    *)
(* operation of the code (lower, strip, endswith, "in", len, isupper, the  *)
(* regular expressions) is computed character by character.                *)
(***************************************************************************)
EXTENDS Integers, Sequences, FiniteSets, TLC

\* ------------------------------------------------------------------ bounds
\* Longest OCR text, counted in vocabulary words.
MaxWords == 3
\* Most pages of an uploaded document.
MaxPages == 2
\* Most components of one section handed to group_checkboxes_to_dropdowns.
MaxComps == 5

\* ------------------------------------------------------------ arithmetic
Min(a, b) == IF a <= b THEN a ELSE b

Max(a, b) == IF a >= b THEN a ELSE b

Abs(a) == IF a < 0 THEN -a ELSE a

\* Page-space lengths (PDF points) are fixed-point numbers counted in quarter
\* points, so that halves of integer pixel coordinates and of half-point font
\* sizes are exact.
Unit == 2 * 2

\* ---------------------------------------------------------------- strings
Cat(s, t) == s \o t

\* The vocabulary: the characters of each word.
WordChars(w) ==
    CASE w = "[" -> <<"[">>
      [] w = "o" -> <<"U+25CB">>
      [] w = " " -> <<" ">>
      [] w = ":" -> <<":">>
      [] w = "yes" -> <<"y", "e", "s">>
      [] w = "name" -> <<"n", "a", "m", "e">>
      [] w = "date" -> <<"d", "a", "t", "e">>
      [] w = "email" -> <<"e", "m", "a", "i", "l">>
      [] w = "form" -> <<"f", "o", "r", "m">>
      [] w = "signature" -> <<"s", "i", "g", "n", "a", "t", "u", "r", "e">>
      [] w = "TOTAL" -> <<"T", "O", "T", "A", "L">>
      [] w = "q20" -> [i \in 1..20 |-> "q"]

Vocabulary == {"[", "o", " ", ":", "yes", "name", "date", "email", "form",
               "signature", "TOTAL", "q20"}

RECURSIVE Concat(_)
Concat(ws) == IF ws = <<>> THEN <<>> ELSE Cat(WordChars(Head(ws)), Concat(Tail(ws)))

WordSeqs(n) == UNION {[1..k -> Vocabulary] : k \in 0..n}

UpperChars == {"T", "O", "A", "L"}

LowerOf(c) ==
    CASE c = "T" -> "t" [] c = "O" -> "o" [] c = "A" -> "a" [] c = "L" -> "l"
      [] OTHER -> c

IsCased(c) == c \notin {"[", "]", " ", ":", ".", "/", "U+2610", "U+2611", "U+2713",
                        "U+2717", "U+25CB", "U+25CF"}

IsSpace(c) == c = " "

\* str.lower()
Lower(s) == [i \in 1..Len(s) |-> LowerOf(s[i])]

RECURSIVE LStrip(_)
LStrip(s) == IF s # <<>> /\ IsSpace(Head(s)) THEN LStrip(Tail(s)) ELSE s

RECURSIVE RStrip(_)
RStrip(s) ==
    IF s # <<>> /\ IsSpace(s[Len(s)]) THEN RStrip(SubSeq(s, 1, Len(s) - 1)) ELSE s

\* str.strip()
Strip(s) == RStrip(LStrip(s))

\* str.rstrip(':')
RECURSIVE RStripColon(_)
RStripColon(s) ==
    IF s # <<>> /\ s[Len(s)] = ":" THEN RStripColon(SubSeq(s, 1, Len(s) - 1)) ELSE s

\* str.endswith(suffix)
EndsWith(s, suffix) ==
    /\ Len(suffix) <= Len(s)
    /\ SubSeq(s, Len(s) - Len(suffix) + 1, Len(s)) = suffix

\* "k in s"
Contains(s, k) ==
    \E i \in 1..(Len(s) - Len(k) + 1) : SubSeq(s, i, i + Len(k) - 1) = k

ContainsAny(s, keywords) == \E k \in keywords : Contains(s, k)

\* str.isupper(): at least one cased character and no lowercase one.
IsUpper(s) ==
    /\ \E i \in 1..Len(s) : IsCased(s[i])
    /\ \A i \in 1..Len(s) : IsCased(s[i]) => s[i] \in UpperChars

\* re.search(r'^\s*[...]\s*', s): after leading whitespace, a character of the class.
SearchLeadingClass(s, class) == LStrip(s) # <<>> /\ Head(LStrip(s)) \in class

\* re.search(r'(w1|w2|...)$', s): s ends with one of the alternatives.
SearchTrailingWord(s, alternatives) == \E w \in alternatives : EndsWith(s, w)

\* ------------------------------------------------------ classify_field_type
CheckboxGlyphs == {"[", "]", "U+2610", "U+2611", "U+2713", "U+2717", "x", "X"}

RadioGlyphs == {"U+25CB", "U+25CF"}

CheckboxAnswers ==
    { <<"n", "e", "w">>, <<"a", "d", "d", "i", "t", "i", "o", "n", "a", "l">>,
      <<"d", "a", "m", "a", "g", "e", "d">>, <<"l", "o", "s", "t">>,
      <<"y", "e", "s">>, <<"n", "o">>, <<"m", "a", "l", "e">>,
      <<"f", "e", "m", "a", "l", "e">>, <<"m", "r">>, <<"m", "s">>,
      <<"m", "r", "s">> }

TableKeywords ==
    { <<"n", "o", ".">>, <<"d", "a", "t", "e">>, <<"n", "a", "m", "e">>,
      <<"n", "r", "i", "c">>, <<"c", "o", "n", "t", "a", "c", "t">>,
      <<"a", "d", "d", "r", "e", "s", "s">> }

TextFieldKeywords ==
    { <<"n", "a", "m", "e">>, <<"n", "r", "i", "c">>,
      <<"c", "o", "n", "t", "a", "c", "t">>, <<"a", "d", "d", "r", "e", "s", "s">>,
      <<"e", "m", "a", "i", "l">>, <<"p", "h", "o", "n", "e">>,
      <<"d", "a", "t", "e", " ", "o", "f", " ", "b", "i", "r", "t", "h">>,
      <<"o", "c", "c", "u", "p", "a", "t", "i", "o", "n">> }

TitleKeywords ==
    { <<"a", "p", "p", "l", "i", "c", "a", "t", "i", "o", "n">>,
      <<"f", "o", "r", "m">>, <<"d", "e", "t", "a", "i", "l", "s">>,
      <<"i", "n", "f", "o", "r", "m", "a", "t", "i", "o", "n">>,
      <<"s", "e", "c", "t", "i", "o", "n">> }

TableCellMaxLen == 50

TitleMaxLen == 60

LabelMaxLen == 30

\* The checkbox rule: one of the three checkbox_patterns matches text_lower.
CheckboxRule(text) ==
    LET text_lower == Strip(Lower(text)) IN
    \/ SearchLeadingClass(text_lower, CheckboxGlyphs)
    \/ SearchTrailingWord(text_lower, CheckboxAnswers)
    \/ SearchLeadingClass(text_lower, RadioGlyphs)

TableCellRule(text) ==
    Len(text) < TableCellMaxLen /\ ContainsAny(Strip(Lower(text)), TableKeywords)

TextFieldRule(text) ==
    EndsWith(text, <<":">>) \/ ContainsAny(Strip(Lower(text)), TextFieldKeywords)

TitleRule(text) ==
    /\ Len(text) < TitleMaxLen
    /\ (IsUpper(text) \/ ContainsAny(Strip(Lower(text)), TitleKeywords))

LabelRule(text) == Len(text) < LabelMaxLen

\* A plausible slip: the text_field test placed before the table_cell test.
classify_field_type_reordered(text, bbox) ==
    IF CheckboxRule(text) THEN "checkbox"
    ELSE IF TextFieldRule(text) THEN "text_field"
    ELSE IF TableCellRule(text) THEN "table_cell"
    ELSE IF TitleRule(text) THEN "title"
    ELSE IF LabelRule(text) THEN "label"
    ELSE "non_fillable"

classify_field_type(text, bbox) ==
    IF CheckboxRule(text) THEN "checkbox"
    ELSE IF TableCellRule(text) THEN "table_cell"
    ELSE IF TextFieldRule(text) THEN "text_field"
    ELSE IF TitleRule(text) THEN "title"
    ELSE IF LabelRule(text) THEN "label"
    ELSE "non_fillable"

\* ------------------------------------------------------------ Python values
PyNone == [t |-> "none", b |-> FALSE, s |-> <<>>]

PyBool(b) == [t |-> "bool", b |-> b, s |-> <<>>]

PyStr(s) == [t |-> "str", b |-> FALSE, s |-> s]

\* ----------------------------------------------------- process_ocr_on_image
\* A plausible slip: the page left out of the id.
FieldIdWithoutPage(page_num, field_counter) == <<"field", 1, field_counter>>

\* f"field_{page_num:03d}_{field_counter:03d}": the zero-padded, underscore
\* separated rendering is one-to-one in (page_num, field_counter); the id is
\* kept as that triple.
FieldId(page_num, field_counter) == <<"field", page_num, field_counter>>

\* The decimal digits of a natural number, and "{n:03d}".
DigitChars == <<"0", "1", "2", "3", "4", "5", "6", "7", "8", "9">>

RECURSIVE Decimal(_)
Decimal(n) ==
    IF n < 10 THEN <<DigitChars[n + 1]>>
    ELSE Append(Decimal(n \div 10), DigitChars[(n % 10) + 1])

RECURSIVE ZeroPad(_, _)
ZeroPad(digits, width) ==
    IF Len(digits) >= width THEN digits ELSE ZeroPad(<<"0">> \o digits, width)

\* The string an id stands for: f"field_{page_num:03d}_{field_counter:03d}",
\* f"acro_{page_num}_{len(field_regions)}", f"ocr_{page_num}_{idx}",
\* f"dropdown_{id}".
RECURSIVE IdText(_)
IdText(id) ==
    CASE id[1] = "field" ->
           <<"f", "i", "e", "l", "d", "_">> \o ZeroPad(Decimal(id[2]), 3)
              \o <<"_">> \o ZeroPad(Decimal(id[3]), 3)
      [] id[1] = "acro" ->
           <<"a", "c", "r", "o", "_">> \o Decimal(id[2]) \o <<"_">> \o Decimal(id[3])
      [] id[1] = "ocr" ->
           <<"o", "c", "r", "_">> \o Decimal(id[2]) \o <<"_">> \o Decimal(id[3])
      [] id[1] = "dropdown" ->
           <<"d", "r", "o", "p", "d", "o", "w", "n", "_">> \o IdText(id[2])

\* [coord for point in box for coord in point]
FlattenBox(box) ==
    <<box[1][1], box[1][2], box[2][1], box[2][2],
      box[3][1], box[3][2], box[4][1], box[4][2]>>

\* One iteration of the loop over result[0].
FieldData(line, page_num, field_counter) ==
    LET text == line.text
        bbox == FlattenBox(line.box)
        field_type == classify_field_type(text, bbox)
    IN  [id |-> FieldId(page_num, field_counter),
         type |-> field_type,
         label |-> text,
         bbox |-> bbox,
         page |-> page_num,
         confidence |-> line.conf,
         value |-> IF field_type = "checkbox" THEN PyBool(FALSE) ELSE PyStr(<<>>),
         row |-> IF field_type = "table_cell" THEN "None" ELSE "absent",
         col |-> IF field_type = "table_cell" THEN "None" ELSE "absent"]

\* The fields of one page, from the engine's result for it (a sequence of
\* lines; an empty or missing result gives no fields).
process_ocr_on_image(result, page_num) ==
    [i \in 1..Len(result) |-> FieldData(result[i], page_num, i)]

\* ------------------------------------------------------- convert_field_to_ui
EnterPrefix == <<"E", "n", "t", "e", "r", " ">>

\* The component of a field, or no component (HasUi false) for the types that
\* convert_field_to_ui maps to None.
HasUi(field) == field.type \in {"checkbox", "text_field", "table_cell"}

convert_field_to_ui(field) ==
    CASE field.type = "checkbox" ->
           [id |-> field.id, type |-> "checkbox", title |-> field.label,
            value |-> PyBool(FALSE)]
      [] field.type = "text_field" ->
           [id |-> field.id, type |-> "text_field",
            title |-> RStripColon(field.label),
            placeholder |-> Cat(EnterPrefix, Lower(RStripColon(field.label)))]
      [] field.type = "table_cell" ->
           [id |-> field.id, type |-> "text_field", title |-> field.label,
            row |-> "None", col |-> "None"]

\* ---------------------------------------------- group_checkboxes_to_dropdowns
DropdownId(id) == <<"dropdown", id>>

Dropdown(checkbox_group, section_name) ==
    [id |-> DropdownId(checkbox_group[1].id),
     type |-> "dropdown",
     title |-> section_name,
     options |-> [i \in 1..Len(checkbox_group) |-> checkbox_group[i].title]]

\* A plausible slip: a group is flushed as a dropdown only from three boxes on.
FlushFromThree(grouped_fields, checkbox_group, section_name) ==
    IF Len(checkbox_group) > 2
    THEN Append(grouped_fields, Dropdown(checkbox_group, section_name))
    ELSE grouped_fields \o checkbox_group

\* The flush of checkbox_group into grouped_fields.
Flush(grouped_fields, checkbox_group, section_name) ==
    IF Len(checkbox_group) > 1
    THEN Append(grouped_fields, Dropdown(checkbox_group, section_name))
    ELSE IF Len(checkbox_group) = 1
    THEN Append(grouped_fields, checkbox_group[1])
    ELSE grouped_fields

RECURSIVE GroupLoop(_, _, _, _, _)
GroupLoop(fields, i, grouped_fields, checkbox_group, section_name) ==
    IF i > Len(fields)
    THEN Flush(grouped_fields, checkbox_group, section_name)
    ELSE IF fields[i].type = "checkbox"
    THEN GroupLoop(fields, i + 1, grouped_fields,
                   Append(checkbox_group, fields[i]), section_name)
    ELSE GroupLoop(fields, i + 1,
                   Append(Flush(grouped_fields, checkbox_group, section_name),
                          fields[i]),
                   <<>>, section_name)

GroupSection(section) ==
    [section EXCEPT !.fields = GroupLoop(section.fields, 1, <<>>, <<>>, section.section)]

group_checkboxes_to_dropdowns(sections) ==
    [k \in 1..Len(sections) |-> GroupSection(sections[k])]

\* ---------------------------------------------------------- generate_ui_schema
section_threshold == 100

SectionName == <<"S", "e", "c", "t", "i", "o", "n">>

MainSectionName == <<"M", "a", "i", "n", " ">> \o SectionName

\* sorted(fields, key=lambda f: (f["page"], f["bbox"][1])): a stable sort.
SortKeyLeq(f, g) ==
    \/ f.page < g.page
    \/ f.page = g.page /\ f.bbox[2] <= g.bbox[2]

RECURSIVE InsertSorted(_, _)
InsertSorted(sorted, f) ==
    IF sorted = <<>> THEN <<f>>
    ELSE IF SortKeyLeq(sorted[Len(sorted)], f) THEN Append(sorted, f)
    ELSE Append(InsertSorted(SubSeq(sorted, 1, Len(sorted) - 1), f),
                sorted[Len(sorted)])

RECURSIVE SortFields(_)
SortFields(fields) ==
    IF fields = <<>> THEN <<>>
    ELSE InsertSorted(SortFields(SubSeq(fields, 1, Len(fields) - 1)),
                      fields[Len(fields)])

NewSection(name, page) == [section |-> name, page |-> page, fields |-> <<>>]

\* A plausible slip: a gap of exactly the threshold breaks the section too.
LargeGapInclusive(y_pos, last_y) == Abs(y_pos - last_y) >= section_threshold

\* abs(y_pos - last_y) > section_threshold
LargeGap(y_pos, last_y) == Abs(y_pos - last_y) > section_threshold

\* A plausible slip: the last section appended whatever it holds.
KeepsLastAlways(current_section) == TRUE

\* The test of the last section: current_section["fields"] is not empty.
KeepsLast(current_section) == current_section.fields # <<>>

\* A plausible slip: fields.sort(key=...) in place of sorted(fields, key=...).
FieldsAfterSortInPlace(fields) == SortFields(fields)

\* The caller's list after generate_ui_schema: sorted() builds a new list and
\* nothing assigns into fields or into its records.
FieldsAfterSorted(fields) == fields

\* One iteration of the loop over sorted_fields.  st holds the loop's locals:
\* sections, current_section (open says whether it is not None) and last_y.
SchemaStep(st, field) ==
    LET y_pos == field.bbox[2]
        breaks == \/ field.type = "title"
                  \/ st.open /\ LargeGap(y_pos, st.last_y)
        sections1 == IF breaks /\ st.open
                     THEN Append(st.sections, st.current_section)
                     ELSE st.sections
        current1 == IF breaks
                    THEN NewSection(IF field.type = "title" THEN field.label
                                    ELSE SectionName, field.page)
                    ELSE IF ~st.open
                    THEN NewSection(MainSectionName, field.page)
                    ELSE st.current_section
        current2 == IF field.type # "title" /\ HasUi(field)
                    THEN [current1 EXCEPT
                            !.fields = Append(@, convert_field_to_ui(field))]
                    ELSE current1
    IN  [sections |-> sections1, open |-> TRUE, current_section |-> current2,
         last_y |-> y_pos]

RECURSIVE SchemaLoop(_, _, _)
SchemaLoop(sorted_fields, i, st) ==
    IF i > Len(sorted_fields) THEN st
    ELSE SchemaLoop(sorted_fields, i + 1, SchemaStep(st, sorted_fields[i]))

generate_ui_schema(fields) ==
    IF fields = <<>> THEN <<>>
    ELSE
      LET st == SchemaLoop(SortFields(fields), 1,
                           [sections |-> <<>>, open |-> FALSE,
                            current_section |-> NewSection(MainSectionName, 0),
                            last_y |-> 0])
          sections == IF st.open /\ KeepsLast(st.current_section)
                      THEN Append(st.sections, st.current_section)
                      ELSE st.sections
      IN  group_checkboxes_to_dropdowns(sections)

\* ------------------------------------------- flatten_ui_schema_to_components
NonFillable == {"title", "label", "non_fillable"}

Component(field) ==
    [id |-> field.id, label |-> field.label, bbox |-> field.bbox,
     page |-> field.page,
     type |-> IF field.type = "checkbox" THEN "checkbox" ELSE "input",
     value |-> IF field.type = "checkbox" THEN PyBool(FALSE) ELSE PyStr(<<>>)]

\* A plausible slip: table cells fall into the final "else: continue".
IsFlatTypeNoTable(type) ==
    type \notin NonFillable /\ type \in {"checkbox", "text_field"}

\* The types that reach components.append.
IsFlatType(type) ==
    type \notin NonFillable /\ type \in {"checkbox", "text_field", "table_cell"}

RECURSIVE FlattenLoop(_, _, _)
FlattenLoop(all_fields, i, components) ==
    IF i > Len(all_fields) THEN components
    ELSE FlattenLoop(all_fields, i + 1,
                     IF IsFlatType(all_fields[i].type)
                     THEN Append(components, Component(all_fields[i]))
                     ELSE components)

flatten_ui_schema_to_components(all_fields) == FlattenLoop(all_fields, 1, <<>>)

\* ------------------------------------------------------------ create_field_map
FieldMapEntry(field) ==
    [bbox |-> field.bbox, page |-> field.page, type |-> field.type]

\* field_map[field["id"]] = {...} in list order: a later field with the same
\* id overwrites the earlier entry.
create_field_map(all_fields) ==
    LET mapped == {i \in 1..Len(all_fields) : all_fields[i].type \notin NonFillable}
        keys == {all_fields[i].id : i \in mapped}
        last(k) == CHOOSE i \in mapped :
                     /\ all_fields[i].id = k
                     /\ \A j \in mapped : all_fields[j].id = k => j <= i
    IN  [k \in keys |-> FieldMapEntry(all_fields[last(k)])]

\* ------------------------------------------------------------------ geometry
\* A plausible slip: the 2x scale of the rendering forgotten.
Div2Forgotten(n) == n * Unit

\* n / 2, for a pixel coordinate n of a page rendered at fitz.Matrix(2, 2).
Div2(n) == (n * Unit) \div 2

Points(n) == n * Unit

\* page.rect of every page of the modelled documents (US Letter).
PageWidth == 612

PageHeight == 792

\* a / b kept as the pair (a, b).
Frac(a, b) == <<a, b>>

\* ------------------------------------------------------------- the document
\* doc.catalog as detect_acroform_fields reads it: without an AcroForm entry,
\* with an AcroForm that has no Fields entry, with an empty Fields array, or
\* with fields.
CatalogStates == {"no_acroform", "no_fields", "empty_fields", "fields"}

NullAnnot == [kind |-> "null", field_type |-> "", named |-> FALSE, row |-> 0]

LinkAnnot == [kind |-> "link", field_type |-> "", named |-> FALSE, row |-> 0]

\* A widget annotation; row places its rectangle on the page.
Widget(field_type, named, row) ==
    [kind |-> "widget", field_type |-> field_type, named |-> named, row |-> row]

\* The annotation lists a page may carry.
AnnotLists ==
    { <<>>,
      <<LinkAnnot>>,
      <<Widget("TEXT", TRUE, 1)>>,
      <<NullAnnot, Widget("CHECKBOX", FALSE, 1), LinkAnnot, Widget("UNKNOWN", TRUE, 2)>>,
      <<Widget("RADIOBUTTON", TRUE, 1), Widget("COMBOBOX", FALSE, 2)>>,
      <<Widget("LISTBOX", TRUE, 1), Widget("SIGNATURE", TRUE, 2), Widget("BUTTON", TRUE, 3)>> }

\* annot.rect, in points.
AnnotRect(annot) ==
    [x0 |-> Points(72), y0 |-> Points(100 * annot.row),
     x1 |-> Points(272), y1 |-> Points(100 * annot.row + 20)]

\* The documents: a catalog state and the annotations of each page.
Docs(catalogs, lists) ==
    UNION {{[catalog |-> c, pages |-> ps] : c \in catalogs, ps \in [1..n -> lists]} :
             n \in 1..MaxPages}

HasWidget(doc) ==
    \E p \in 1..Len(doc.pages) : \E k \in 1..Len(doc.pages[p]) :
        doc.pages[p][k].kind = "widget"

\* ---------------------------------------------------- detect_acroform_fields
type_mapping(field_type) ==
    CASE field_type = "TEXT" -> "text_field"
      [] field_type = "BUTTON" -> "checkbox"
      [] field_type = "CHECKBOX" -> "checkbox"
      [] field_type = "RADIOBUTTON" -> "radio"
      [] field_type = "COMBOBOX" -> "dropdown"
      [] field_type = "LISTBOX" -> "listbox"
      [] field_type = "SIGNATURE" -> "signature"
      [] OTHER -> "text_field"

\* A plausible slip: the widget test inverted.
SkipsAnnotInverted(annot) == annot.kind = "null" \/ annot.kind = "widget"

\* The annotations the inner loop skips: a falsy annot, or one that is no widget.
SkipsAnnot(annot) == annot.kind = "null" \/ annot.kind # "widget"

\* The field_region of a widget; page_num is 0-based and n is
\* len(field_regions) when it is appended.
AcroRegion(annot, page_num, n) ==
    LET rect == AnnotRect(annot)
        field_name == IF annot.named THEN <<"w", page_num, annot.row>>
                      ELSE <<"field", page_num, n>>
    IN  [id |-> <<"acro", page_num, n>>,
         page |-> page_num + 1,
         type |-> type_mapping(annot.field_type),
         name |-> field_name,
         label |-> field_name,
         value |-> PyStr(<<>>),
         rect_normalized |->
            [x |-> Frac(rect.x0, Points(PageWidth)),
             y |-> Frac(rect.y0, Points(PageHeight)),
             width |-> Frac(rect.x1 - rect.x0, Points(PageWidth)),
             height |-> Frac(rect.y1 - rect.y0, Points(PageHeight))],
         rect_absolute |-> rect,
         source |-> "acroform"]

RECURSIVE AcroAnnotLoop(_, _, _, _)
AcroAnnotLoop(annots, k, page_num, field_regions) ==
    IF k > Len(annots) THEN field_regions
    ELSE AcroAnnotLoop(annots, k + 1, page_num,
                       IF SkipsAnnot(annots[k]) THEN field_regions
                       ELSE Append(field_regions,
                                   AcroRegion(annots[k], page_num, Len(field_regions))))

\* The loop over the pages 0 .. upto - 1 (0-based).
RECURSIVE AcroPageLoop(_, _, _, _)
AcroPageLoop(doc, page_num, upto, field_regions) ==
    IF page_num >= upto THEN field_regions
    ELSE AcroPageLoop(doc, page_num + 1, upto,
                      AcroAnnotLoop(doc.pages[page_num + 1], 1, page_num, field_regions))

\* A plausible slip: the except clause returning what was collected so far.
OnExtractErrorKeeps(collected) == <<Len(collected) > 0, collected>>

\* What the except clause returns: (False, []), whatever was collected.
OnExtractError(collected) == <<FALSE, <<>>>>

\* (has_acroform, field_regions).  raises says whether reading the document
\* raises, and at where: 0 while reading the catalog, p while reading the
\* annotations of the p-th page (which is reached only past the three catalog
\* tests).
detect_acroform_fields(doc, raises, at) ==
    IF raises /\ at = 0 THEN OnExtractError(<<>>)
    ELSE IF doc.catalog # "fields" THEN <<FALSE, <<>>>>
    ELSE IF raises
    THEN OnExtractError(AcroPageLoop(doc, 0, at - 1, <<>>))
    ELSE LET field_regions == AcroPageLoop(doc, 0, Len(doc.pages), <<>>)
         IN  <<Len(field_regions) > 0, field_regions>>

\* ------------------------------------------------- infer_field_type_from_ocr
InferCheckboxGlyphs == {"[", "]", "U+2610", "U+2611", "U+2713", "U+2717", "x", "X",
                        "U+25CB", "U+25CF"}

InferCheckboxAnswers ==
    { <<"y", "e", "s">>, <<"n", "o">>, <<"m", "a", "l", "e">>,
      <<"f", "e", "m", "a", "l", "e">>, <<"m", "r">>, <<"m", "s">>,
      <<"m", "r", "s">>, <<"d", "r">> }

SignatureKeywords ==
    { <<"s", "i", "g", "n", "a", "t", "u", "r", "e">>,
      <<"s", "i", "g", "n", " ", "h", "e", "r", "e">>,
      <<"s", "i", "g", "n", "e", "d">> }

DateKeywords ==
    { <<"d", "a", "t", "e">>, <<"d", "d", "/", "m", "m">>,
      <<"m", "m", "/", "d", "d">>, <<"y", "y", "y", "y">> }

infer_field_type_from_ocr(text, bbox) ==
    LET text_lower == Strip(Lower(text)) IN
    IF \/ SearchLeadingClass(text_lower, InferCheckboxGlyphs)
       \/ SearchTrailingWord(text_lower, InferCheckboxAnswers)
    THEN "checkbox"
    ELSE IF ContainsAny(text_lower, SignatureKeywords) THEN "signature"
    ELSE IF ContainsAny(text_lower, DateKeywords) THEN "date_field"
    ELSE "text_field"

\* ----------------------------------------------------- detect_fields_via_ocr
\* The field_region of the idx-th line (0-based) of a page's OCR result.
OcrRegion(line, page_num, idx) ==
    LET x0 == Div2(line.box[1][1])
        y0 == Div2(line.box[1][2])
        x1 == Div2(line.box[3][1])
        y1 == Div2(line.box[3][2])
    IN  [id |-> <<"ocr", page_num, idx>>,
         page |-> page_num + 1,
         type |-> infer_field_type_from_ocr(line.text, line.box),
         name |-> <<"field", page_num, idx>>,
         label |-> line.text,
         value |-> PyStr(<<>>),
         confidence |-> line.conf,
         rect_normalized |->
            [x |-> Frac(x0, Points(PageWidth)),
             y |-> Frac(y0, Points(PageHeight)),
             width |-> Frac(x1 - x0, Points(PageWidth)),
             height |-> Frac(y1 - y0, Points(PageHeight))],
         rect_absolute |-> [x0 |-> x0, y0 |-> y0, x1 |-> x1, y1 |-> y1],
         source |-> "ocr"]

OcrRegions(result, page_num) ==
    [i \in 1..Len(result) |-> OcrRegion(result[i], page_num, i - 1)]

\* =================================================================== state
\* The request being served (one request at a time).
VARIABLES
    pc,             \* the handler's position
    endpoint,       \* "process", "ocr", "ui_generate", "overlay" ("none": idle)
    upload,         \* the uploaded file: filename extension and contents
    form,           \* /overlay: the parsed filled_data (values, fieldMap)
    magic_bound,    \* whether the global name "magic" is bound in main.py
    disk,           \* the temporary files that exist
    ocr_calls,      \* invocations of ocr.ocr so far
    loc,            \* the handler's local variables
    pages_drawn,    \* /overlay: what has been drawn on each page of doc
    response        \* the response returned to the caller

\* A worker process serving several requests on its one event loop.
VARIABLES
    tasks,          \* the requests in flight: each one's position and pages left
    running         \* the request whose code the event loop is executing (0: none)

\* A pure function under test: its argument and its return value.
VARIABLES
    fn,             \* the function called ("none": not called yet)
    arg,            \* the argument it is called with
    ret             \* what it returned

workerVars == <<tasks, running>>

reqVars == <<pc, endpoint, upload, form, magic_bound, disk, ocr_calls, loc,
             pages_drawn, response, workerVars>>

funVars == <<fn, arg, ret>>

vars == <<reqVars, funVars>>

NoResponse == [status |-> 0]

\* No request is in flight in the worker.
WorkerIdle == tasks = <<>> /\ running = 0

ReqIdle ==
    /\ pc = "idle"
    /\ endpoint = "none"
    /\ upload = [filename_ext |-> "", contents |-> "none"]
    /\ form = [valid |-> FALSE]
    /\ disk = {}
    /\ ocr_calls = 0
    /\ loc = [x |-> 0]
    /\ pages_drawn = <<>>
    /\ response = NoResponse
    /\ WorkerIdle

\* ------------------------------------------------------------- OCR results
Box(x, y, w, h) == <<<<x, y>>, <<x + w, y>>, <<x + w, y + h>>, <<x, y + h>>>>

Confidences == {50, 99}

\* ============================================ the classifier on one OCR line
\* The engine's result holds one line, of any text of at most MaxWords words.
InitClassify ==
    /\ ReqIdle /\ magic_bound = FALSE
    /\ fn = "none" /\ ret = <<>>
    /\ \E ws \in WordSeqs(MaxWords), c \in Confidences :
         arg = <<[box |-> Box(100, 100, 200, 40), text |-> Concat(ws), conf |-> c]>>

\* process_ocr_on_image on an engine result of one line.
CallProcessOcrOnImage ==
    /\ fn = "none"
    /\ fn' = "process_ocr_on_image"
    /\ ret' = process_ocr_on_image(arg, 1)
    /\ UNCHANGED <<arg, reqVars>>

NextClassify == CallProcessOcrOnImage

SpecClassify == InitClassify /\ [][NextClassify]_vars

\* The cascade as a rule table: the types in priority order, and each type's rule.
RuleOrder == <<"checkbox", "table_cell", "text_field", "title", "label">>

RuleHolds(type, text) ==
    CASE type = "checkbox" -> CheckboxRule(text)
      [] type = "table_cell" -> TableCellRule(text)
      [] type = "text_field" -> TextFieldRule(text)
      [] type = "title" -> TitleRule(text)
      [] type = "label" -> LabelRule(text)

Matching(text) == {i \in 1..Len(RuleOrder) : RuleHolds(RuleOrder[i], text)}

FirstMatch(text) ==
    IF Matching(text) = {} THEN "non_fillable"
    ELSE RuleOrder[CHOOSE i \in Matching(text) : \A j \in Matching(text) : i <= j]

SixTypes == {"checkbox", "table_cell", "text_field", "title", "label", "non_fillable"}

\* C9: the type given to an OCR line is the type of the first rule, in the
\* order checkbox, table_cell, text_field, title, label, whose predicate holds
\* of the line's text, non_fillable when none holds; it is one of the six
\* types, and the same line with any other confidence gets the same type.
C9_FirstMatchWins ==
    fn = "process_ocr_on_image" =>
        /\ ret[1].type = FirstMatch(arg[1].text)
        /\ ret[1].type \in SixTypes
        /\ ret[1].confidence = arg[1].conf
        /\ \A c \in Confidences :
               FieldData([arg[1] EXCEPT !.conf = c], 1, 1).type = ret[1].type

\* C9's case: a text that the table_cell rule and the text_field rule (and the
\* label rule) all match has been classified, as table_cell.
C9_Witness ==
    /\ fn = "process_ocr_on_image"
    /\ TableCellRule(arg[1].text) /\ TextFieldRule(arg[1].text)
    /\ ~CheckboxRule(arg[1].text)
    /\ ret[1].type = "table_cell"

\* ==================================================== checkbox folding alone
Letters == <<"A", "B", "C", "D", "E", "F", "G", "H">>

\* The components of a section as generate_ui_schema builds them: the k-th is
\* converted from a field of the given type, with id field_<page>_<k> and a
\* label of its own.
ComponentsOf(types, page) ==
    [k \in 1..Len(types) |->
        convert_field_to_ui([id |-> FieldId(page, k), type |-> types[k],
                             label |-> <<Letters[k]>>])]

TypeLists == UNION {[1..n -> {"checkbox", "text_field"}] : n \in 0..MaxComps}

SectionOf(name, page, ts) ==
    [section |-> name, page |-> page, fields |-> ComponentsOf(ts, page)]

\* One section, or two, of at most MaxComps components each.
InitGroup ==
    /\ ReqIdle /\ magic_bound = FALSE
    /\ fn = "none" /\ ret = <<>>
    /\ \E ts \in TypeLists :
         \/ arg = <<SectionOf(MainSectionName, 1, ts)>>
         \/ \E us \in TypeLists :
              arg = <<SectionOf(MainSectionName, 1, ts), SectionOf(SectionName, 2, us)>>

CallGroupCheckboxes ==
    /\ fn = "none"
    /\ fn' = "group_checkboxes_to_dropdowns"
    /\ ret' = group_checkboxes_to_dropdowns(arg)
    /\ UNCHANGED <<arg, reqVars>>

NextGroup == CallGroupCheckboxes

SpecGroup == InitGroup /\ [][NextGroup]_vars

IsCheckbox(c) == c.type = "checkbox"

\* The places of a component list where a block starts: every non-checkbox
\* component, and every checkbox that is first or follows a non-checkbox.
BlockStarts(cs) ==
    {i \in 1..Len(cs) : ~IsCheckbox(cs[i]) \/ i = 1 \/ ~IsCheckbox(cs[i - 1])}

\* The last place of the block that starts at i.
BlockEnd(cs, i) ==
    IF ~IsCheckbox(cs[i]) THEN i
    ELSE CHOOSE j \in i..Len(cs) :
           /\ \A k \in i..j : IsCheckbox(cs[k])
           /\ j = Len(cs) \/ ~IsCheckbox(cs[j + 1])

\* The k-th smallest element of a set of numbers.
Nth(S, k) == CHOOSE i \in S : Cardinality({j \in S : j <= i}) = k

\* What the claim says a section's list becomes.
Folded(cs, k) ==
    LET i == Nth(BlockStarts(cs), k)
        j == BlockEnd(cs, i)
    IN  IF j = i THEN cs[i]
        ELSE [id |-> DropdownId(cs[i].id), options |-> [m \in 1..(j - i + 1) |-> cs[i + m - 1].title]]

FoldedAsClaimed(before, after) ==
    /\ Len(after) = Cardinality(BlockStarts(before))
    /\ \A k \in 1..Len(after) :
         LET want == Folded(before, k) IN
         IF "options" \in DOMAIN want
         THEN /\ after[k].type = "dropdown"
              /\ after[k].id = want.id
              /\ after[k].options = want.options
         ELSE after[k] = want
    /\ \A k \in 1..(Len(after) - 1) : ~(IsCheckbox(after[k]) /\ IsCheckbox(after[k + 1]))

ExampleTypes == <<"text_field", "checkbox", "checkbox", "checkbox", "text_field">>

\* C8: in every section, each maximal run of two or more checkboxes becomes one
\* dropdown (id "dropdown_" + the first checkbox's id, options the run's titles
\* in order), a run of one checkbox and every other component are kept in
\* place, and no two checkboxes are adjacent afterwards; [A, cb B, cb C, cb D,
\* E] becomes [A, dropdown [B, C, D], E] and [cb B] stays [cb B].
C8_CheckboxFolding ==
    fn = "group_checkboxes_to_dropdowns" =>
        /\ Len(ret) = Len(arg)
        /\ \A s \in 1..Len(arg) :
             /\ FoldedAsClaimed(arg[s].fields, ret[s].fields)
             /\ ret[s].section = arg[s].section /\ ret[s].page = arg[s].page
        /\ arg[1].fields = ComponentsOf(ExampleTypes, 1) =>
             /\ Len(ret[1].fields) = 3
             /\ ret[1].fields[1] = arg[1].fields[1]
             /\ ret[1].fields[2].type = "dropdown"
             /\ ret[1].fields[2].id = DropdownId(FieldId(1, 2))
             /\ ret[1].fields[2].options = << <<"B">>, <<"C">>, <<"D">> >>
             /\ ret[1].fields[3] = arg[1].fields[5]
        /\ arg[1].fields = ComponentsOf(<<"checkbox">>, 1) =>
             ret[1].fields = arg[1].fields

\* C8's case: the example section has been folded, beside a second section
\* that holds a single checkbox between two runs' worth of other components.
C8_Witness ==
    /\ fn = "group_checkboxes_to_dropdowns"
    /\ Len(arg) = 2
    /\ arg[1].fields = ComponentsOf(ExampleTypes, 1)
    /\ arg[2].fields = ComponentsOf(<<"checkbox", "text_field", "checkbox", "checkbox">>, 2)
    /\ Len(ret[2].fields) = 3

\* ======================================= the flat components and the field map
\* One representative text of each type, each at its own place on the page.
SampleLine(k) ==
    CASE k = 1 -> [box |-> Box(100, 100, 200, 40), text |-> Concat(<<"yes">>), conf |-> 99]
      [] k = 2 -> [box |-> Box(100, 160, 200, 40), text |-> Concat(<<"name">>), conf |-> 50]
      [] k = 3 -> [box |-> Box(100, 220, 200, 40), text |-> Concat(<<"email", ":">>), conf |-> 99]
      [] k = 4 -> [box |-> Box(100, 400, 200, 40), text |-> Concat(<<"form">>), conf |-> 99]
      [] k = 5 -> [box |-> Box(100, 460, 200, 40), text |-> Concat(<<"q20">>), conf |-> 50]
      [] k = 6 -> [box |-> Box(100, 520, 200, 40), text |-> Concat(<<"q20", "q20">>), conf |-> 99]

SampleKinds == 1..6

\* The engine's result for a page: the sample lines of the given kinds.
ResultOf(kinds) == [i \in 1..Len(kinds) |-> SampleLine(kinds[i])]

\* Most OCR lines of one detection run.
MaxLines == 3

\* all_fields as the endpoints build it: all_fields.extend(page_fields), page
\* after page.
RECURSIVE AllFields(_, _)
AllFields(results, page_num) ==
    IF page_num > Len(results) THEN <<>>
    ELSE process_ocr_on_image(results[page_num], page_num)
           \o AllFields(results, page_num + 1)

\* A detection run over a document of one or two pages, at most MaxLines lines
\* in all.
InitFlat ==
    /\ ReqIdle /\ magic_bound = FALSE
    /\ fn = "none" /\ ret = <<>>
    /\ \E n \in 0..MaxLines : \E k1 \in [1..n -> SampleKinds] :
         \/ arg = AllFields(<<ResultOf(k1)>>, 1)
         \/ \E m \in 1..(MaxLines - n) : \E k2 \in [1..m -> SampleKinds] :
              arg = AllFields(<<ResultOf(k1), ResultOf(k2)>>, 1)

\* The two derivations of ui_generate_endpoint, from the same all_fields.
CallFlattenAndFieldMap ==
    /\ fn = "none"
    /\ fn' = "ui_generate"
    /\ ret' = [components |-> flatten_ui_schema_to_components(arg),
               fieldMap |-> create_field_map(arg)]
    /\ UNCHANGED <<arg, reqVars>>

NextFlat == CallFlattenAndFieldMap

SpecFlat == InitFlat /\ [][NextFlat]_vars

IdsOf(seq) == {seq[i].id : i \in 1..Len(seq)}

\* C10: for a field list produced by detection, the ids of the flat components
\* are exactly the keys of the field map, each component's geometry and page
\* are those of its field map entry, and no title, label or non_fillable field
\* is in either.
C10_FlatAgreesWithFieldMap ==
    fn = "ui_generate" =>
        /\ IdsOf(ret.components) = DOMAIN ret.fieldMap
        /\ \A i \in 1..Len(ret.components) :
             LET c == ret.components[i] IN
             /\ ret.fieldMap[c.id].bbox = c.bbox
             /\ ret.fieldMap[c.id].page = c.page
        /\ \A i \in 1..Len(arg) :
             arg[i].type \in NonFillable =>
                 /\ arg[i].id \notin IdsOf(ret.components)
                 /\ arg[i].id \notin DOMAIN ret.fieldMap

\* C10's case: a run with a table cell, a text field and a title on two pages
\* has been flattened and mapped.
C10_Witness ==
    /\ fn = "ui_generate"
    /\ \E i, j, k \in 1..Len(arg) :
         /\ arg[i].type = "table_cell" /\ arg[j].type = "title"
         /\ arg[k].type = "text_field" /\ arg[k].page = 2
    /\ Len(ret.components) = 2

\* ================================================================ the requests
\* Temporary files, by role: the saved upload, the raster image of a page, the
\* filled output document.
UploadFile == <<"upload", 0>>

PageImage(page_num) == <<"page", page_num>>

OutputFile == <<"output", 0>>

FilenameExts == {".pdf", ".png", ".txt"}

PdfOf(doc) == [mime |-> "application/pdf", doc |-> doc]

BlankDoc(n) == [catalog |-> "no_acroform", pages |-> [p \in 1..n |-> <<>>]]

NotPdf(mime) == [mime |-> mime, doc |-> BlankDoc(1)]

\* The engine's possible results for a page: none, one line, two lines.
PageResults == {<<>>, ResultOf(<<3>>), ResultOf(<<1, 4>>)}

\* The failure payload of /process: JSONResponse(error_response, 500).  raised_by
\* names the call whose exception the handler's "except Exception" caught.
ProcessError(raised_by) ==
    [status |-> 500, success |-> FALSE, raised_by |-> raised_by]

\* raise HTTPException(status_code, detail), as it leaves a handler.
HttpError(status_code, raised_by) ==
    [status |-> status_code, success |-> FALSE, raised_by |-> raised_by]

\* ------------------------------------------------------------------ /process
ProcessReceive ==
    /\ pc = "idle"
    /\ \E ext \in FilenameExts :
         \E contents \in {PdfOf(d) : d \in Docs(CatalogStates, AnnotLists)}
                           \cup {NotPdf("image/png")} :
            upload' = [filename_ext |-> ext, contents |-> contents]
    /\ endpoint' = "process"
    /\ pc' = "validate"
    /\ loc' = [page_count |-> 0, has_acroform |-> FALSE, field_regions |-> <<>>,
               extract_raised |-> FALSE, page_num |-> 0]
    /\ UNCHANGED <<form, magic_bound, disk, ocr_calls, pages_drawn, response, funVars, workerVars>>

\* if not file.filename.lower().endswith('.pdf'): the HTTPException(400) is
\* raised inside the handler's try and caught by its "except Exception".
ProcessValidate ==
    /\ endpoint = "process" /\ pc = "validate"
    /\ IF upload.filename_ext # ".pdf"
       THEN /\ response' = ProcessError("HTTPException(400)")
            /\ pc' = "done"
       ELSE /\ pc' = "save_upload"
            /\ UNCHANGED response
    /\ UNCHANGED <<endpoint, upload, form, magic_bound, disk, ocr_calls, loc,
                   pages_drawn, funVars, workerVars>>

\* tempfile.NamedTemporaryFile(delete=False, suffix='.pdf'); tmp.write(contents)
ProcessSaveUpload ==
    /\ endpoint = "process" /\ pc = "save_upload"
    /\ disk' = disk \cup {UploadFile}
    /\ pc' = "open"
    /\ UNCHANGED <<endpoint, upload, form, magic_bound, ocr_calls, loc,
                   pages_drawn, response, funVars, workerVars>>

\* fitz.open(tmp_path): raises on contents that are no PDF, and may raise on a
\* PDF (a damaged file); the finally clause unlinks tmp_path.
ProcessOpen ==
    /\ endpoint = "process" /\ pc = "open"
    /\ \E opens \in BOOLEAN :
         IF opens /\ upload.contents.mime = "application/pdf"
         THEN /\ loc' = [loc EXCEPT !.page_count = Len(upload.contents.doc.pages)]
              /\ pc' = "detect"
              /\ UNCHANGED <<disk, response>>
         ELSE /\ disk' = disk \ {UploadFile}
              /\ response' = ProcessError("fitz.open")
              /\ pc' = "done"
              /\ UNCHANGED loc
    /\ UNCHANGED <<endpoint, upload, form, magic_bound, ocr_calls, pages_drawn, funVars, workerVars>>

\* has_acroform, field_regions = detect_acroform_fields(doc), and the test
\* "if not has_acroform" that follows it.
ProcessDetectAcroform ==
    /\ endpoint = "process" /\ pc = "detect"
    /\ \E raises \in BOOLEAN, at \in 0..loc.page_count :
         /\ raises /\ at > 0 => upload.contents.doc.catalog = "fields"
         /\ ~raises => at = 0
         /\ LET r == detect_acroform_fields(upload.contents.doc, raises, at) IN
            /\ loc' = [loc EXCEPT !.has_acroform = r[1], !.field_regions = r[2],
                                  !.extract_raised = raises]
            /\ pc' = IF r[1] THEN "respond" ELSE "ocr_render"
    /\ UNCHANGED <<endpoint, upload, form, magic_bound, disk, ocr_calls,
                   pages_drawn, response, funVars, workerVars>>

\* detect_fields_via_ocr, one page: page.get_pixmap, pix.tobytes, Image.open,
\* then the temporary image file and img.save into it.  An exception before
\* the file is created leaves nothing; one raised by img.save leaves the file
\* (it is created with delete=False, and the try that unlinks it is not yet
\* entered).  Either leaves process_document through its finally clause.
ProcessRenderPage ==
    /\ endpoint = "process" /\ pc = "ocr_render"
    /\ \E outcome \in {"ok", "render_error", "save_error"} :
         /\ disk' = IF outcome = "ok" THEN disk \cup {PageImage(loc.page_num)}
                    ELSE IF outcome = "save_error"
                    THEN (disk \cup {PageImage(loc.page_num)}) \ {UploadFile}
                    ELSE disk \ {UploadFile}
         /\ IF outcome = "ok"
            THEN pc' = "ocr_run" /\ UNCHANGED response
            ELSE /\ pc' = "done"
                 /\ response' = ProcessError(IF outcome = "save_error" THEN "img.save"
                                             ELSE "page.get_pixmap")
    /\ UNCHANGED <<endpoint, upload, form, magic_bound, ocr_calls, loc,
                   pages_drawn, funVars, workerVars>>

\* result = ocr.ocr(temp_path, cls=True), the loop over result[0], and the
\* finally clause that unlinks temp_path.
ProcessOcrPage ==
    /\ endpoint = "process" /\ pc = "ocr_run"
    /\ ocr_calls' = ocr_calls + 1
    /\ \E raises \in BOOLEAN, result \in PageResults :
         IF raises
         THEN /\ result = <<>>
              /\ disk' = disk \ {PageImage(loc.page_num), UploadFile}
              /\ response' = ProcessError("ocr.ocr")
              /\ pc' = "done"
              /\ UNCHANGED loc
         ELSE /\ disk' = disk \ {PageImage(loc.page_num)}
              /\ loc' = [loc EXCEPT
                           !.field_regions = @ \o OcrRegions(result, loc.page_num),
                           !.page_num = @ + 1]
              /\ pc' = IF loc.page_num + 1 < loc.page_count THEN "ocr_render"
                       ELSE "respond"
              /\ UNCHANGED response
    /\ UNCHANGED <<endpoint, upload, form, magic_bound, pages_drawn, funVars, workerVars>>

\* doc.close(), the response, and the finally clause that unlinks tmp_path.
ProcessRespond ==
    /\ endpoint = "process" /\ pc = "respond"
    /\ response' = [status |-> 200, success |-> TRUE,
                    acroform |-> loc.has_acroform,
                    field_regions |-> loc.field_regions,
                    page_count |-> loc.page_count,
                    total_fields |-> Len(loc.field_regions)]
    /\ disk' = disk \ {UploadFile}
    /\ pc' = "done"
    /\ UNCHANGED <<endpoint, upload, form, magic_bound, ocr_calls, loc,
                   pages_drawn, funVars, workerVars>>

ProcessNext ==
    \/ ProcessReceive
    \/ ProcessValidate
    \/ ProcessSaveUpload
    \/ ProcessOpen
    \/ ProcessDetectAcroform
    \/ ProcessRenderPage
    \/ ProcessOcrPage
    \/ ProcessRespond

\* ------------------------------------------------------------- draw_checkmark
\* rect.width and rect.height of a fitz.Rect: never negative.
RectWidth(rect) == Max(0, rect.x1 - rect.x0)

RectHeight(rect) == Max(0, rect.y1 - rect.y0)

\* The polyline of the checkmark.  Its points are kept in tenths of a unit:
\* rect.x0 + rect.width * 0.2 is (10 * x0 + 2 * width) / 10.
draw_checkmark(rect) ==
    LET w == RectWidth(rect)
        h == RectHeight(rect)
    IN  [op |-> "polyline",
         points |-> << <<10 * rect.x0 + 2 * w, 10 * rect.y0 + 5 * h>>,
                       <<10 * rect.x0 + 4 * w, 10 * rect.y0 + 7 * h>>,
                       <<10 * rect.x0 + 8 * w, 10 * rect.y0 + 3 * h>> >>,
         width |-> (3 * Unit) \div 2]

\* --------------------------------------------------------- insert_text_in_box
StartFontSize == 10

MinFontSize == 6

\* A plausible slip: a step of a whole point.
FontStepWhole == Unit

\* font_size -= 0.5
FontStep == Unit \div 2

\* text_width <= rect.width * 0.95, in hundredths.
FitPercent == 95

\* fitz.get_text_length(text, fontname="helv", fontsize=font_size): the sum of
\* the glyph advances times the font size; every glyph is given the advance
\* of half an em.
get_text_length(text, font_size) == (Len(text) * font_size) \div 2

FitsWidth(text_width, rect) == 100 * text_width <= FitPercent * RectWidth(rect)

Fits(text, font_size, rect) == FitsWidth(get_text_length(text, font_size), rect)

\* The while loop: from font_size down, the first size that fits or that is
\* not above 6.
RECURSIVE FitFont(_, _, _)
FitFont(font_size, text, rect) ==
    IF font_size > Points(MinFontSize) /\ ~Fits(text, font_size, rect)
    THEN FitFont(font_size - FontStep, text, rect)
    ELSE font_size

\* The page.insert_text call of a non-empty text.
insert_text_in_box(rect, text) ==
    LET font_size == FitFont(Points(StartFontSize), text, rect)
        text_y == rect.y0 + (RectHeight(rect) + font_size) \div 2
    IN  [op |-> "text", at |-> <<rect.x0 + Points(2), text_y>>, text |-> text,
         fontsize |-> font_size]

\* ------------------------------------------------------- overlay_pdf, one pair
TrueStr == <<"T", "r", "u", "e">>

FalseStr == <<"F", "a", "l", "s", "e">>

NoneStr == <<"N", "o", "n", "e">>

\* str(value)
StrOf(value) ==
    CASE value.t = "bool" -> IF value.b THEN TrueStr ELSE FalseStr
      [] value.t = "none" -> NoneStr
      [] OTHER -> value.s

\* str.lower() of the values' characters.
LowerValue(s) == [i \in 1..Len(s) |-> IF s[i] = "T" THEN "t" ELSE IF s[i] = "F" THEN "f" ELSE s[i]]

TruthyStrings == { <<"t", "r", "u", "e">>, <<"1">>, <<"y", "e", "s">> }

\* value is True or str(value).lower() in ['true', '1', 'yes']
IsChecked(value) ==
    \/ value.t = "bool" /\ value.b
    \/ LowerValue(StrOf(value)) \in TruthyStrings

\* A plausible slip: "if not value", which also skips False.
SkippedAsEmptyFalsy(value) ==
    \/ value.t = "none"
    \/ value.t = "str" /\ value.s = <<>>
    \/ value.t = "bool" /\ ~value.b

\* (value is None or value == "") and value is not False
SkippedAsEmpty(value) ==
    /\ value.t = "none" \/ (value.t = "str" /\ value.s = <<>>)
    /\ ~(value.t = "bool" /\ ~value.b)

\* doc[page_num] for page_num < len(doc): a negative index counts from the end
\* (Document.load_page adds len(doc) until it is not negative).  The page is
\* returned as its 1-based place in pages_drawn.
RECURSIVE LoadPage(_, _)
LoadPage(page_num, n_pages) ==
    IF page_num < 0 THEN LoadPage(page_num + n_pages, n_pages) ELSE page_num + 1

\* The rectangle of a bbox of 8 numbers.
BboxRect(bbox) ==
    [x0 |-> Div2(Min(bbox[1], bbox[7])), y0 |-> Div2(Min(bbox[2], bbox[4])),
     x1 |-> Div2(Max(bbox[3], bbox[5])), y1 |-> Div2(Max(bbox[6], bbox[8]))]

\* if page_num >= len(doc): continue
PageOutOfRange(page_num, n_pages) == page_num >= n_pages


NoRect == [x0 |-> 0, y0 |-> 0, x1 |-> 0, y1 |-> 0]

\* An iteration that draws nothing.
NoDraw(why, rect) == [kind |-> why, page |-> 0, draw |-> <<>>, rect |-> rect]

Skip(why) == NoDraw(why, NoRect)

\* One iteration of "for field_id, value in values.items()": what becomes of
\* the pair.  kind is the continue taken ("empty", "not_in_field_map",
\* "page_out_of_range", "invalid_bbox"), "raised" when the iteration raises,
\* "nothing_drawn" for an unchecked checkbox, "drawn" otherwise, with the page
\* and what is drawn on it; rect is the rectangle computed for the pair (the
\* one the handler prints).  draw_fails says whether the drawing library raises.
OverlayPair(field_id, value, field_map, n_pages, draw_fails) ==
    IF SkippedAsEmpty(value) THEN Skip("empty")
    ELSE IF field_id \notin DOMAIN field_map THEN Skip("not_in_field_map")
    ELSE LET field_info == field_map[field_id] IN
    IF ~field_info.is_dict THEN Skip("raised")
    ELSE LET page_num == field_info.page - 1 IN
    IF PageOutOfRange(page_num, n_pages) THEN Skip("page_out_of_range")
    ELSE IF Len(field_info.bbox) # 8 THEN Skip("invalid_bbox")
    ELSE LET rect == BboxRect(field_info.bbox)
             page == LoadPage(page_num, n_pages)
         IN
    IF field_info.type = "checkbox" /\ ~IsChecked(value) THEN NoDraw("nothing_drawn", rect)
    ELSE IF draw_fails THEN NoDraw("raised", rect)
    ELSE [kind |-> "drawn", page |-> page, rect |-> rect,
          draw |-> IF field_info.type = "checkbox" THEN <<draw_checkmark(rect)>>
                   ELSE <<insert_text_in_box(rect, StrOf(value))>>]

\* ------------------------------------------------------------------- /overlay
ExamplePolygon == <<100, 100, 300, 100, 300, 140, 100, 140>>

SkewedPolygon == <<110, 90, 310, 100, 300, 150, 100, 140>>

SixNumbers == <<100, 100, 300, 100, 300, 140>>

NotADict == [is_dict |-> FALSE, page |-> 0, bbox |-> <<>>, type |-> ""]

FieldInfo(page, bbox, type) ==
    [is_dict |-> TRUE, page |-> page, bbox |-> bbox, type |-> type]

FieldTypesIn == {"checkbox", "text_field"}

\* The entries field "a" may have in the posted fieldMap: any page from 0 to
\* one past the last possible page.
EntriesA ==
    {NotADict}
      \cup {FieldInfo(p, ExamplePolygon, t) : p \in 0..(MaxPages + 1), t \in FieldTypesIn}
      \cup {FieldInfo(1, b, t) : b \in {SkewedPolygon, SixNumbers}, t \in FieldTypesIn}

EntriesB ==
    {NotADict, FieldInfo(1, ExamplePolygon, "checkbox"),
     FieldInfo(2, SkewedPolygon, "text_field")}

FieldMaps ==
    {[k \in {} |-> NotADict]}
      \cup {[k \in {"a"} |-> ea] : ea \in EntriesA}
      \cup {[k \in {"b"} |-> eb] : eb \in EntriesB}
      \cup {[k \in {"a", "b"} |-> IF k = "a" THEN ea ELSE eb] :
              ea \in EntriesA, eb \in EntriesB}

ValuesIn ==
    {PyNone, PyStr(<<>>), PyBool(FALSE), PyBool(TRUE), PyStr(<<"y", "e", "s">>),
     PyStr(<<"A", "n", "n">>)}

\* values.items(): the pairs in the order of the posted JSON object, whose keys
\* are distinct.
ValueItems ==
    {<<>>}
      \cup {<<[id |-> k, value |-> v]>> : k \in {"a", "b"}, v \in ValuesIn}
      \cup {<<[id |-> kl[1], value |-> v], [id |-> kl[2], value |-> w]>> :
              kl \in {<<"a", "b">>, <<"b", "a">>}, v \in ValuesIn, w \in ValuesIn}

OverlayError(raised_by) == HttpError(500, raised_by)

OverlayReceive ==
    /\ pc = "idle"
    /\ \E contents \in {PdfOf(BlankDoc(n)) : n \in 1..MaxPages} :
         upload' = [filename_ext |-> ".pdf", contents |-> contents]
    /\ \/ form' = [valid |-> FALSE, values |-> <<>>, fieldMap |-> [k \in {} |-> NotADict]]
       \/ \E items \in ValueItems, field_map \in FieldMaps :
            form' = [valid |-> TRUE, values |-> items, fieldMap |-> field_map]
    /\ endpoint' = "overlay"
    /\ pc' = "parse"
    /\ loc' = [i |-> 1, n_pages |-> 0, outcomes |-> <<>>]
    /\ UNCHANGED <<magic_bound, disk, ocr_calls, pages_drawn, response, funVars, workerVars>>

\* json.loads(filled_data): the HTTPException(400) of the inner except is
\* raised inside the outer try, whose "except Exception" turns it into a 500.
OverlayParse ==
    /\ endpoint = "overlay" /\ pc = "parse"
    /\ IF ~form.valid
       THEN /\ response' = OverlayError("HTTPException(400)")
            /\ pc' = "done"
       ELSE /\ pc' = "save_upload"
            /\ UNCHANGED response
    /\ UNCHANGED <<endpoint, upload, form, magic_bound, disk, ocr_calls, loc,
                   pages_drawn, funVars, workerVars>>

\* The input copy tmp_in_path is written; output_path = tempfile.mktemp(...)
\* only names a file.
OverlaySaveUpload ==
    /\ endpoint = "overlay" /\ pc = "save_upload"
    /\ disk' = disk \cup {UploadFile}
    /\ pc' = "open"
    /\ UNCHANGED <<endpoint, upload, form, magic_bound, ocr_calls, loc,
                   pages_drawn, response, funVars, workerVars>>

\* doc = fitz.open(tmp_in_path)
OverlayOpen ==
    /\ endpoint = "overlay" /\ pc = "open"
    /\ \E opens \in BOOLEAN :
         IF opens
         THEN /\ loc' = [loc EXCEPT !.n_pages = Len(upload.contents.doc.pages)]
              /\ pages_drawn' = [p \in 1..Len(upload.contents.doc.pages) |-> <<>>]
              /\ pc' = "fields"
              /\ UNCHANGED <<disk, response>>
         ELSE /\ disk' = disk \ {UploadFile}
              /\ response' = OverlayError("fitz.open")
              /\ pc' = "done"
              /\ UNCHANGED <<loc, pages_drawn>>
    /\ UNCHANGED <<endpoint, upload, form, magic_bound, ocr_calls, funVars, workerVars>>

\* One iteration of the loop over values.items().  An exception leaves the
\* loop and the handler: the finally clause unlinks tmp_in_path and the outer
\* except answers 500.
OverlayField ==
    /\ endpoint = "overlay" /\ pc = "fields"
    /\ loc.i <= Len(form.values)
    /\ \E draw_fails \in BOOLEAN :
         LET item == form.values[loc.i]
             out == OverlayPair(item.id, item.value, form.fieldMap, loc.n_pages,
                                draw_fails)
         IN  /\ loc' = [loc EXCEPT !.i = @ + 1,
                                   !.outcomes = Append(@, [id |-> item.id, kind |-> out.kind,
                                                           page |-> out.page,
                                                           rect |-> out.rect])]
             /\ IF out.kind = "raised"
                THEN /\ disk' = disk \ {UploadFile}
                     /\ response' = OverlayError("overlay loop")
                     /\ pc' = "done"
                     /\ UNCHANGED pages_drawn
                ELSE /\ pages_drawn' =
                          IF out.kind = "drawn"
                          THEN [pages_drawn EXCEPT ![out.page] = @ \o out.draw]
                          ELSE pages_drawn
                     /\ UNCHANGED <<disk, response, pc>>
    /\ UNCHANGED <<endpoint, upload, form, magic_bound, ocr_calls, funVars, workerVars>>

\* doc.save(output_path), doc.close(), the FileResponse (background=None: the
\* response deletes nothing), and the finally clause that unlinks tmp_in_path.
\* A save that raises may have begun to write output_path.
OverlaySave ==
    /\ endpoint = "overlay" /\ pc = "fields"
    /\ loc.i > Len(form.values)
    /\ \E saves \in BOOLEAN, written \in BOOLEAN :
         /\ saves => written
         /\ disk' = (IF written THEN disk \cup {OutputFile} ELSE disk) \ {UploadFile}
         /\ response' = IF saves
                        THEN [status |-> 200, success |-> TRUE, file |-> pages_drawn]
                        ELSE OverlayError("doc.save")
    /\ pc' = "done"
    /\ UNCHANGED <<endpoint, upload, form, magic_bound, ocr_calls, loc,
                   pages_drawn, funVars, workerVars>>

OverlayNext ==
    \/ OverlayReceive
    \/ OverlayParse
    \/ OverlaySaveUpload
    \/ OverlayOpen
    \/ OverlayField
    \/ OverlaySave

\* --------------------------------------------------- /ocr and /ui/generate
\* The two handlers share their text up to the response they build.
SniffReceive ==
    /\ pc = "idle"
    /\ \E ep \in {"ocr", "ui_generate"}, ext \in FilenameExts :
         \E contents \in {PdfOf(BlankDoc(n)) : n \in 1..MaxPages}
                           \cup {NotPdf("image/png"), NotPdf("text/plain")} :
            /\ endpoint' = ep
            /\ upload' = [filename_ext |-> ext, contents |-> contents]
    /\ pc' = "sniff"
    /\ loc' = [file_ext |-> "", images |-> <<>>, next |-> 1, all_fields |-> <<>>,
               page_metadata |-> <<>>]
    /\ UNCHANGED <<form, magic_bound, disk, ocr_calls, pages_drawn, response, funVars, workerVars>>

\* mime = magic.from_buffer(contents, mime=True).  main.py never binds the
\* name magic (it is not among the imports of lines 1-15): as the module
\* stands the lookup raises NameError, inside the try, and the handler
\* answers 500 before any file is written.
SniffUnbound ==
    /\ endpoint \in {"ocr", "ui_generate"} /\ pc = "sniff"
    /\ ~magic_bound
    /\ response' = HttpError(500, "NameError")
    /\ pc' = "done"
    /\ UNCHANGED <<endpoint, upload, form, magic_bound, disk, ocr_calls, loc,
                   pages_drawn, funVars, workerVars>>

\* ------------------------------------- /ocr and /ui/generate, past the sniff
\* The extension a sniffed MIME type stands for ("": none of the listed types).
ExtOfMime(mime) ==
    CASE mime = "application/pdf" -> ".pdf"
      [] mime \in {"image/jpeg", "image/jpg"} -> ".jpg"
      [] mime = "image/png" -> ".png"
      [] mime \in {"image/bmp", "image/x-ms-bmp"} -> ".bmp"
      [] mime \in {"image/tiff", "image/x-tiff"} -> ".tiff"
      [] OTHER -> ""

\* file_ext: by the MIME type, else os.path.splitext(file.filename)[1].lower().
FileExt(mime, filename_ext) ==
    IF ExtOfMime(mime) # "" THEN ExtOfMime(mime) ELSE filename_ext

ImageExts == {".jpg", ".jpeg", ".png", ".bmp", ".tiff"}

\* The arm of "if file_ext == '.pdf' ... elif file_ext in [...] ... else".
Branch(file_ext) ==
    IF file_ext = ".pdf" THEN "pdf"
    ELSE IF file_ext \in ImageExts THEN "image"
    ELSE "unsupported"

IsSniffed == endpoint \in {"ocr", "ui_generate"}

\* mime = magic.from_buffer(contents, mime=True), with the name magic bound,
\* and the chain of tests that sets file_ext.
SniffBound ==
    /\ IsSniffed /\ pc = "sniff"
    /\ magic_bound
    /\ loc' = [loc EXCEPT !.file_ext = FileExt(upload.contents.mime, upload.filename_ext)]
    /\ pc' = "save_upload"
    /\ UNCHANGED <<endpoint, upload, form, magic_bound, disk, ocr_calls,
                   pages_drawn, response, funVars, workerVars>>

\* tempfile.NamedTemporaryFile(delete=False, suffix=file_ext), and the test of
\* file_ext that chooses the arm.
PipeSaveUpload ==
    /\ IsSniffed /\ pc = "save_upload"
    /\ disk' = disk \cup {UploadFile}
    /\ pc' = Branch(loc.file_ext)
    /\ UNCHANGED <<endpoint, upload, form, magic_bound, ocr_calls, loc,
                   pages_drawn, response, funVars, workerVars>>

\* else: raise HTTPException(400), inside the try whose finally unlinks
\* tmp_path and inside the outer try whose "except Exception" answers 500.
PipeUnsupported ==
    /\ IsSniffed /\ pc = "unsupported"
    /\ disk' = disk \ {UploadFile}
    /\ response' = HttpError(500, "HTTPException(400)")
    /\ pc' = "done"
    /\ UNCHANGED <<endpoint, upload, form, magic_bound, ocr_calls, loc,
                   pages_drawn, funVars, workerVars>>

\* images = pdf_to_images(tmp_path): fitz.open, then for every page its
\* rendering and a temporary image file.  fail_at = 0: no page fails; an
\* exception at page fail_at leaves the images of the pages before it on disk
\* (and that page's own file when img.save raised), since nothing unlinks them.
PipePdfToImages ==
    /\ IsSniffed /\ pc = "pdf"
    /\ \E opens \in BOOLEAN :
         IF ~(opens /\ upload.contents.mime = "application/pdf")
         THEN /\ disk' = disk \ {UploadFile}
              /\ response' = HttpError(500, "fitz.open")
              /\ pc' = "done"
              /\ UNCHANGED loc
         ELSE LET n == Len(upload.contents.doc.pages) IN
              \E fail_at \in 0..n, raised_by \in {"page.get_pixmap", "img.save"} :
                 IF fail_at = 0
                 THEN /\ raised_by = "img.save"
                      /\ disk' = disk \cup {PageImage(p) : p \in 1..n}
                      /\ loc' = [loc EXCEPT !.images = [p \in 1..n |-> p], !.next = 1]
                      /\ pc' = "ocr_pages"
                      /\ UNCHANGED response
                 ELSE /\ disk' = (disk \cup {PageImage(p) : p \in 1..(fail_at - 1)}
                                       \cup (IF raised_by = "img.save"
                                             THEN {PageImage(fail_at)} ELSE {}))
                                 \ {UploadFile}
                      /\ response' = HttpError(500, raised_by)
                      /\ pc' = "done"
                      /\ UNCHANGED loc
    /\ UNCHANGED <<endpoint, upload, form, magic_bound, ocr_calls, pages_drawn,
                   funVars, workerVars>>

\* One iteration of "for img_data in images": process_ocr_on_image, extend,
\* page_metadata.append, os.unlink(img_data["path"]).  An exception of the
\* engine leaves this image and those of the later pages on disk.
PipeOcrPage ==
    /\ IsSniffed /\ pc = "ocr_pages"
    /\ ocr_calls' = ocr_calls + 1
    /\ LET page == loc.images[loc.next] IN
       \E raises \in BOOLEAN, result \in PageResults :
         IF raises
         THEN /\ result = <<>>
              /\ disk' = disk \ {UploadFile}
              /\ response' = HttpError(500, "ocr.ocr")
              /\ pc' = "done"
              /\ UNCHANGED loc
         ELSE /\ disk' = disk \ {PageImage(page)}
              /\ loc' = [loc EXCEPT
                           !.all_fields = @ \o process_ocr_on_image(result, page),
                           !.page_metadata = Append(@, page),
                           !.next = @ + 1]
              /\ pc' = IF loc.next < Len(loc.images) THEN "ocr_pages" ELSE "respond"
              /\ UNCHANGED response
    /\ UNCHANGED <<endpoint, upload, form, magic_bound, pages_drawn, funVars, workerVars>>

\* The image arm: Image.open(tmp_path), img.size, then
\* process_ocr_on_image(tmp_path, 1, width, height).
PipeImage ==
    /\ IsSniffed /\ pc = "image"
    /\ \E opens \in BOOLEAN, raises \in BOOLEAN, result \in PageResults :
         IF ~(opens /\ ExtOfMime(upload.contents.mime) \in ImageExts)
         THEN /\ ~raises /\ result = <<>>
              /\ disk' = disk \ {UploadFile}
              /\ response' = HttpError(500, "Image.open")
              /\ pc' = "done"
              /\ UNCHANGED <<loc, ocr_calls>>
         ELSE IF raises
         THEN /\ result = <<>>
              /\ ocr_calls' = ocr_calls + 1
              /\ disk' = disk \ {UploadFile}
              /\ response' = HttpError(500, "ocr.ocr")
              /\ pc' = "done"
              /\ UNCHANGED loc
         ELSE /\ ocr_calls' = ocr_calls + 1
              /\ loc' = [loc EXCEPT !.all_fields = @ \o process_ocr_on_image(result, 1),
                                    !.page_metadata = Append(@, 1)]
              /\ pc' = "respond"
              /\ UNCHANGED <<disk, response>>
    /\ UNCHANGED <<endpoint, upload, form, magic_bound, pages_drawn, funVars, workerVars>>

\* The JSONResponse of either handler, and the finally clause that unlinks
\* tmp_path.
PipeRespond ==
    /\ IsSniffed /\ pc = "respond"
    /\ response' =
         IF endpoint = "ocr"
         THEN [status |-> 200, success |-> TRUE,
               ui_schema |-> generate_ui_schema(loc.all_fields),
               ocr_blocks |-> loc.all_fields,
               pages |-> loc.page_metadata,
               total_pages |-> Len(loc.page_metadata),
               total_fields |-> Len(loc.all_fields)]
         ELSE [status |-> 200, success |-> TRUE,
               components |-> flatten_ui_schema_to_components(loc.all_fields),
               fieldMap |-> create_field_map(loc.all_fields),
               pages |-> loc.page_metadata,
               total_pages |-> Len(loc.page_metadata),
               total_fields |-> Len(flatten_ui_schema_to_components(loc.all_fields))]
    /\ disk' = disk \ {UploadFile}
    /\ pc' = "done"
    /\ UNCHANGED <<endpoint, upload, form, magic_bound, ocr_calls, loc,
                   pages_drawn, funVars, workerVars>>

PipeNext ==
    \/ SniffBound
    \/ PipeSaveUpload
    \/ PipeUnsupported
    \/ PipePdfToImages
    \/ PipeOcrPage
    \/ PipeImage
    \/ PipeRespond

\* ------------------------------------------------------------ specifications
Init ==
    /\ ReqIdle
    /\ magic_bound = FALSE
    /\ fn = "none" /\ arg = <<>> /\ ret = <<>>

Next ==
    \/ ProcessNext
    \/ OverlayNext
    \/ SniffReceive
    \/ SniffUnbound

Spec == Init /\ [][Next]_vars

\* The module with the name magic bound (python-magic imported, which lines
\* 690 and 798 presuppose): the four endpoints, /ocr and /ui/generate running
\* past the sniff.
InitBound ==
    /\ ReqIdle
    /\ magic_bound = TRUE
    /\ fn = "none" /\ arg = <<>> /\ ret = <<>>

NextBound ==
    \/ ProcessNext
    \/ OverlayNext
    \/ SniffReceive
    \/ PipeNext

SpecBound == InitBound /\ [][NextBound]_vars

\* ------------------------------------------------------------------- /process
\* The document of the /process request has been opened.
ProcessOpened == endpoint = "process" /\ loc.page_count > 0

TheDoc == upload.contents.doc

WidgetCount(doc) ==
    Cardinality({pk \in UNION {{<<p, k>> : k \in 1..Len(doc.pages[p])} :
                                 p \in 1..Len(doc.pages)} :
                   doc.pages[pk[1]][pk[2]].kind = "widget"})

AllFrom(field_regions, source) ==
    \A i \in 1..Len(field_regions) : field_regions[i].source = source

\* The response carries the structured field list: one acroform region for
\* every widget of the document, each on a page that has a widget.
CarriesStructuredList ==
    /\ response.status = 200
    /\ response.acroform
    /\ Len(response.field_regions) = WidgetCount(TheDoc)
    /\ AllFrom(response.field_regions, "acroform")
    /\ \A i \in 1..Len(response.field_regions) :
         \E k \in 1..Len(TheDoc.pages[response.field_regions[i].page]) :
            TheDoc.pages[response.field_regions[i].page][k].kind = "widget"

\* C1 as stated: a document with a widget annotation on some page never has
\* the OCR engine invoked, and is answered with its structured field list.
C1_WidgetsNeverOcr ==
    ProcessOpened /\ HasWidget(TheDoc) =>
        /\ ocr_calls = 0
        /\ pc = "done" => CarriesStructuredList

\* C1, amended: a document whose catalog has a non-empty field dictionary,
\* that has a widget annotation on some page, and whose reading by
\* detect_acroform_fields raises nothing, never has the OCR engine invoked
\* and is answered with its structured field list, acroform = true.
C1_FieldsAndWidgetsNeverOcr ==
    /\ ProcessOpened
    /\ HasWidget(TheDoc)
    /\ TheDoc.catalog = "fields"
    /\ ~loc.extract_raised
    => /\ ocr_calls = 0
       /\ pc \in {"detect", "respond", "done"}
       /\ pc = "done" => CarriesStructuredList

\* C1's case: a two-page document with fields and widgets on both pages has
\* been answered from its widgets.
C1_Witness ==
    /\ ProcessOpened /\ pc = "done"
    /\ TheDoc.catalog = "fields" /\ Len(TheDoc.pages) = 2
    /\ \A p \in 1..2 : \E k \in 1..Len(TheDoc.pages[p]) : TheDoc.pages[p][k].kind = "widget"
    /\ response.status = 200 /\ response.acroform
    /\ Len(response.field_regions) >= 3
    /\ ocr_calls = 0

\* Structured extraction found nothing it returns: no usable field
\* dictionary, no widget, or an exception while reading.
FellThrough ==
    /\ ProcessOpened
    /\ pc \in {"ocr_render", "ocr_run", "respond", "done"}
    /\ \/ TheDoc.catalog # "fields"
       \/ ~HasWidget(TheDoc)
       \/ loc.extract_raised

OcrBranchCalls == {"page.get_pixmap", "img.save", "ocr.ocr"}

\* C2: when structured extraction finds no usable field dictionary or no
\* widget, or raises, nothing of it reaches the caller: has_acroform is false,
\* the fields it had collected are gone (the OCR branch starts from an empty
\* list and the list only ever holds OCR regions), the OCR branch runs, and
\* the answer is either the OCR branch's own failure or a success reporting
\* acroform = false with OCR-sourced regions only, the engine having been
\* called once per page.  Every successful answer takes its field list from
\* exactly one branch.
C2_ExtractionFailsOpen ==
    /\ FellThrough =>
         /\ ~loc.has_acroform
         /\ AllFrom(loc.field_regions, "ocr")
         /\ pc = "ocr_render" /\ loc.page_num = 0 => loc.field_regions = <<>>
         /\ pc = "done" /\ response.status # 200 => response.raised_by \in OcrBranchCalls
         /\ pc = "done" /\ response.status = 200 =>
              /\ ~response.acroform
              /\ AllFrom(response.field_regions, "ocr")
              /\ ocr_calls = loc.page_count
    /\ ProcessOpened /\ pc = "done" /\ response.status = 200 =>
         \/ /\ response.acroform /\ ocr_calls = 0
            /\ AllFrom(response.field_regions, "acroform")
         \/ /\ ~response.acroform /\ ocr_calls = loc.page_count
            /\ AllFrom(response.field_regions, "ocr")

\* C2's case: reading the second page's annotations raised after the first
\* page's widgets had been collected, and the request was answered from OCR.
C2_Witness ==
    /\ ProcessOpened /\ pc = "done"
    /\ loc.extract_raised
    /\ TheDoc.catalog = "fields" /\ Len(TheDoc.pages) = 2
    /\ \E k \in 1..Len(TheDoc.pages[1]) : TheDoc.pages[1][k].kind = "widget"
    /\ response.status = 200 /\ ~response.acroform
    /\ Len(response.field_regions) >= 2
    /\ ocr_calls = 2

\* ------------------------------------------------------------ temporary files
\* C3: once a request has completed, whatever its exit path, no temporary
\* file it created (upload copy, page image, filled output) is on disk.
C3_NoTempFileRemains == pc = "done" => disk = {}

\* ------------------------------------------------------------------- /overlay
Outcomes == IF endpoint = "overlay" THEN loc.outcomes ELSE <<>>

SomePairRaised == \E k \in 1..Len(Outcomes) : Outcomes[k].kind = "raised"

\* C4: when the processing of one pair fails, only that pair is skipped: every
\* pair of the batch is still gone through and the request is answered with
\* the filled document (or, at worst, with a failure of the save itself).
C4_FailureSkipsOnlyThatPair ==
    endpoint = "overlay" /\ pc = "done" /\ SomePairRaised =>
        /\ Len(Outcomes) = Len(form.values)
        /\ response.status = 200 \/ response.raised_by = "doc.save"

IsNullOrEmpty(value) == value = PyNone \/ value = PyStr(<<>>)

\* The pair that the step from the current state goes through.
ThePair == form.values[loc.i]

OverlayFieldStep ==
    /\ endpoint = "overlay" /\ pc = "fields"
    /\ loc.i <= Len(form.values)
    /\ loc'.i = loc.i + 1

IsCheckboxEntry(field_map, id) ==
    id \in DOMAIN field_map /\ field_map[id].is_dict /\ field_map[id].type = "checkbox"

\* C5: a pair whose value is null or "" is skipped as empty and changes
\* nothing; a pair whose value is false is not skipped as empty but goes on to
\* the id, page and geometry tests, and for a checkbox field it draws nothing
\* and raises nothing.
C5_EmptySkippedFalseProcessed ==
    [][OverlayFieldStep =>
         LET kind == loc'.outcomes[loc.i].kind IN
         /\ IsNullOrEmpty(ThePair.value) =>
              /\ kind = "empty"
              /\ pages_drawn' = pages_drawn /\ pc' = pc /\ response' = response
         /\ ThePair.value = PyBool(FALSE) =>
              /\ kind # "empty"
              /\ ThePair.id \notin DOMAIN form.fieldMap => kind = "not_in_field_map"
              /\ IsCheckboxEntry(form.fieldMap, ThePair.id) =>
                   /\ kind \in {"page_out_of_range", "invalid_bbox", "nothing_drawn"}
                   /\ pages_drawn' = pages_drawn /\ pc' = pc /\ response' = response
      ]_vars

\* C5's case: an empty string has been skipped and an explicit false has gone
\* through all the tests of a checkbox field, drawing nothing.
C5_Witness ==
    /\ endpoint = "overlay" /\ pc = "done" /\ response.status = 200
    /\ Len(form.values) = 2
    /\ form.values[1].value = PyStr(<<>>) /\ Outcomes[1].kind = "empty"
    /\ form.values[2].value = PyBool(FALSE) /\ Outcomes[2].kind = "nothing_drawn"
    /\ \A p \in 1..Len(pages_drawn) : pages_drawn[p] = <<>>

\* The pair must be skipped, by the claim: its id is no key of the field map,
\* or its page index (page - 1) is before the first or past the last page, or
\* its geometry is not 8 numbers.
MustBeSkipped(item, field_map, n_pages) ==
    \/ item.id \notin DOMAIN field_map
    \/ /\ field_map[item.id].is_dict
       /\ \/ field_map[item.id].page - 1 < 0
          \/ field_map[item.id].page - 1 >= n_pages
          \/ Len(field_map[item.id].bbox) # 8

SkipKinds == {"empty", "not_in_field_map", "page_out_of_range", "invalid_bbox"}

\* The pages the field map names for the pairs gone through so far.
NamedPages ==
    {form.fieldMap[Outcomes[k].id].page :
        k \in {j \in 1..Len(Outcomes) : Outcomes[j].id \in DOMAIN form.fieldMap}}

\* C6: a pair whose id is no key of the field map, whose page index is outside
\* the document's pages (before the first or past the last), or whose geometry
\* is not 8 numbers is skipped, without error and without a change to any
\* page; nothing is drawn on a page the field map does not name.
C6_UnmappedSkippedCleanly ==
    endpoint = "overlay" =>
        /\ \A k \in 1..Len(Outcomes) :
             MustBeSkipped(form.values[k], form.fieldMap, loc.n_pages) =>
                 Outcomes[k].kind \in SkipKinds
        /\ \A p \in 1..Len(pages_drawn) : pages_drawn[p] # <<>> => p \in NamedPages

\* C7: the rectangle computed for a pair with an 8-number polygon is
\* x0 = min(c0x, c3x) / 2, y0 = min(c0y, c1y) / 2, x1 = max(c1x, c2x) / 2,
\* y1 = max(c2y, c3y) / 2, and what is drawn is placed by it (a text starts 2
\* points right of x0, a checkmark at x0 + 0.2 width); the corners (100, 100),
\* (300, 100), (300, 140), (100, 140) give (50, 50)-(150, 70).
C7_PolygonToRectangle ==
    endpoint = "overlay" =>
        \A k \in 1..Len(Outcomes) :
            Outcomes[k].kind \in {"drawn", "nothing_drawn"} =>
                LET bbox == form.fieldMap[Outcomes[k].id].bbox
                    rect == Outcomes[k].rect
                IN  /\ 2 * rect.x0 = Min(bbox[1], bbox[7]) * Unit
                    /\ 2 * rect.y0 = Min(bbox[2], bbox[4]) * Unit
                    /\ 2 * rect.x1 = Max(bbox[3], bbox[5]) * Unit
                    /\ 2 * rect.y1 = Max(bbox[6], bbox[8]) * Unit
                    /\ bbox = ExamplePolygon =>
                         rect = [x0 |-> 50 * Unit, y0 |-> 50 * Unit,
                                 x1 |-> 150 * Unit, y1 |-> 70 * Unit]
                    /\ Outcomes[k].kind = "drawn" =>
                         LET drawn == pages_drawn[Outcomes[k].page] IN
                         \E d \in 1..Len(drawn) :
                            \/ drawn[d].op = "text" /\ drawn[d].at[1] = rect.x0 + 2 * Unit
                            \/ /\ drawn[d].op = "polyline"
                               /\ drawn[d].points[1][1] = 10 * rect.x0 + 2 * (rect.x1 - rect.x0)

\* C7's case: the example polygon and the skewed one have both been drawn
\* into.
C7_Witness ==
    /\ endpoint = "overlay" /\ pc = "done" /\ response.status = 200
    /\ Len(Outcomes) = 2
    /\ Outcomes[1].kind = "drawn" /\ Outcomes[2].kind = "drawn"
    /\ \E k \in 1..2 : form.fieldMap[Outcomes[k].id].bbox = ExamplePolygon
    /\ \E k \in 1..2 : form.fieldMap[Outcomes[k].id].bbox = SkewedPolygon
    /\ \E p \in 1..Len(pages_drawn) : pages_drawn[p] # <<>>

\* ---------------------------------------------------------------- input errors
\* The request ended on one of the handlers' own "raise HTTPException(400)":
\* a filename that does not end in .pdf, an unsupported file type, a
\* filled_data that is no JSON.
EndedOnInputError ==
    pc = "done" /\ response.status # 200 /\ response.raised_by = "HTTPException(400)"

\* C11: an input error is answered with a client error (HTTP 400), never with
\* a server error (500).
C11_InputErrorIsClientError == EndedOnInputError => response.status = 400

\* ------------------------------------------------------------ content sniffing
\* The arm a request to /ocr or /ui/generate has taken ("none" before the
\* test of file_ext).
BranchTaken ==
    IF IsSniffed /\ pc \notin {"idle", "sniff", "save_upload"}
    THEN Branch(loc.file_ext)
    ELSE "none"

NumRequests == 3

Requests == 1..NumRequests

\* A plausible variant: the engine call handed to a thread and awaited, so that
\* the coroutine gives up the event loop while the engine runs.
YieldsAtEngineToo(pos) == pos \in {"await_read", "in_ocr"}

\* The positions at which a handler gives up the event loop.  The handlers
\* are "async def" coroutines whose one await is "contents = await
\* file.read()"; result = ocr.ocr(...) is an ordinary call made on the loop.
YieldsAt(pos) == pos = "await_read"

\* The request r moves to pos, keeping or giving up the event loop.
MoveTo(r, pos) ==
    /\ tasks' = [tasks EXCEPT ![r].pos = pos]
    /\ running' = IF YieldsAt(pos) THEN 0 ELSE r

RestIdle ==
    UNCHANGED <<pc, endpoint, upload, form, magic_bound, disk, ocr_calls, loc,
                pages_drawn, response, funVars>>

\* Requests to /process and /ocr for documents of one to MaxPages pages have
\* arrived at the worker.
InitWorker ==
    /\ pc = "idle" /\ endpoint = "none"
    /\ upload = [filename_ext |-> "", contents |-> "none"]
    /\ form = [valid |-> FALSE]
    /\ disk = {} /\ ocr_calls = 0 /\ loc = [x |-> 0]
    /\ pages_drawn = <<>> /\ response = NoResponse
    /\ magic_bound = TRUE
    /\ fn = "none" /\ arg = <<>> /\ ret = <<>>
    /\ running = 0
    /\ \E eps \in [Requests -> {"process", "ocr"}], ns \in [Requests -> 1..MaxPages] :
         tasks = [r \in Requests |->
                    [pos |-> "new", endpoint |-> eps[r], pages_left |-> ns[r]]]

\* The event loop starts the handler of r, which runs up to its await.
TaskStart(r) ==
    /\ running = 0 /\ tasks[r].pos = "new"
    /\ MoveTo(r, "await_read")
    /\ RestIdle

\* What r awaits has completed: r waits for the event loop.
TaskWake(r) ==
    /\ running # r /\ tasks[r].pos = "await_read"
    /\ tasks' = [tasks EXCEPT ![r].pos = "ready"]
    /\ UNCHANGED running
    /\ RestIdle

\* The event loop, free, resumes r past its await.
TaskResume(r) ==
    /\ running = 0 /\ tasks[r].pos = "ready"
    /\ MoveTo(r, "sync")
    /\ RestIdle

\* r calls the engine for its next page: ocr.ocr(temp_path, cls=True).
TaskEnterOcr(r) ==
    /\ running = r /\ tasks[r].pos = "sync" /\ tasks[r].pages_left > 0
    /\ MoveTo(r, "in_ocr")
    /\ RestIdle

\* The engine returns to r.
TaskLeaveOcr(r) ==
    /\ tasks[r].pos = "in_ocr"
    /\ tasks' = [tasks EXCEPT ![r].pos = IF YieldsAt("in_ocr") THEN "ready" ELSE "sync",
                              ![r].pages_left = @ - 1]
    /\ UNCHANGED running
    /\ RestIdle

\* The handler of r returns, after its last page or on an exception.
TaskFinish(r) ==
    /\ running = r /\ tasks[r].pos = "sync"
    /\ tasks' = [tasks EXCEPT ![r].pos = "done"]
    /\ running' = 0
    /\ RestIdle

NextWorker ==
    \E r \in Requests :
        \/ TaskStart(r)
        \/ TaskWake(r)
        \/ TaskResume(r)
        \/ TaskEnterOcr(r)
        \/ TaskLeaveOcr(r)
        \/ TaskFinish(r)

SpecWorker == InitWorker /\ [][NextWorker]_vars

InEngine == {r \in DOMAIN tasks : tasks[r].pos = "in_ocr"}

\* C13: with several requests in flight in one worker process, at most one
\* request is inside a call to the OCR engine at any moment, and that request
\* is the one the event loop is executing.
C13_EngineCallsNeverOverlap ==
    /\ Cardinality(InEngine) <= 1
    /\ \A r \in InEngine : running = r

\* C13's case: a request is inside the engine while another one, its upload
\* read, waits for the event loop, and a third has not yet finished reading.
C13_Witness ==
    \E r1, r2, r3 \in DOMAIN tasks :
        /\ tasks[r1].pos = "in_ocr" /\ tasks[r1].pages_left = 1
        /\ tasks[r2].pos = "ready" /\ tasks[r2].pages_left > 0
        /\ tasks[r3].pos = "await_read"

\* ------------------------------------------------------------------ the ids
\* The fields a detection run has collected so far, and its number of pages.
RunFields ==
    IF IsSniffed THEN loc.all_fields
    ELSE IF endpoint = "process" THEN loc.field_regions
    ELSE <<>>

RunPages == Len(upload.contents.doc.pages)

Fillable(fields) == {i \in 1..Len(fields) : fields[i].type \notin NonFillable}

\* C14: within one detection run the ids, as the strings they are, are
\* pairwise distinct across all pages and lines, in each id scheme; every
\* reported page number is 1-indexed (from 1 to the number of pages); fields
\* are in ascending page order; and the field map of /ui/generate holds exactly
\* one entry per fillable field, as does the flat component list.
C14_IdsDistinctPagesAscending ==
    /\ \A i, j \in 1..Len(RunFields) :
         /\ i # j => IdText(RunFields[i].id) # IdText(RunFields[j].id)
         /\ i < j => RunFields[i].page <= RunFields[j].page
    /\ \A i \in 1..Len(RunFields) : RunFields[i].page \in 1..RunPages
    /\ endpoint = "ui_generate" /\ pc = "done" /\ response.status = 200 =>
         /\ Cardinality(DOMAIN response.fieldMap) = Cardinality(Fillable(loc.all_fields))
         /\ Len(response.components) = Cardinality(Fillable(loc.all_fields))
         /\ \A i \in Fillable(loc.all_fields) :
              response.fieldMap[loc.all_fields[i].id] = FieldMapEntry(loc.all_fields[i])

\* C14's case: /ui/generate has answered for a two-page document with lines
\* on both pages, the same line counters occurring on each.
C14_Witness ==
    /\ endpoint = "ui_generate" /\ pc = "done" /\ response.status = 200
    /\ Len(loc.all_fields) = 4
    /\ loc.all_fields[1].page = 1 /\ loc.all_fields[4].page = 2
    /\ Cardinality(DOMAIN response.fieldMap) = 2

\* =========================================================== generate_ui_schema
\* The vertical positions of the lines: gaps of 0, 100, 101 and 201.
LineYs == {100, 200, 301}

\* The sample line of kind k (one per field type), read at height y.
LineAt(k, y) == [SampleLine(k) EXCEPT !.box = Box(100, y, 200, 40)]

PageLines(n) == [1..n -> SampleKinds \X LineYs]

ResultAt(lines) == [i \in 1..Len(lines) |-> LineAt(lines[i][1], lines[i][2])]

\* all_fields of a detection run over two pages, at most MaxLines lines in
\* all, in the order the engine gave them.
InitSchema ==
    /\ ReqIdle /\ magic_bound = FALSE
    /\ fn = "none" /\ ret = <<>>
    /\ \E n1 \in 0..MaxLines : \E n2 \in 0..(MaxLines - n1) :
         \E l1 \in PageLines(n1), l2 \in PageLines(n2) :
            arg = AllFields(<<ResultAt(l1), ResultAt(l2)>>, 1)

\* ui_schema = generate_ui_schema(all_fields)
CallGenerateUiSchema ==
    /\ fn = "none"
    /\ fn' = "generate_ui_schema"
    /\ ret' = [given |-> arg, out |-> <<generate_ui_schema(arg)>>]
    /\ arg' = FieldsAfterSorted(arg)
    /\ UNCHANGED reqVars

\* A second call, on the list as the first call left it.
CallGenerateUiSchemaAgain ==
    /\ fn = "generate_ui_schema" /\ Len(ret.out) = 1
    /\ ret' = [ret EXCEPT !.out = Append(@, generate_ui_schema(arg))]
    /\ arg' = FieldsAfterSorted(arg)
    /\ UNCHANGED <<fn, reqVars>>

NextSchema == CallGenerateUiSchema \/ CallGenerateUiSchemaAgain

SpecSchema == InitSchema /\ [][NextSchema]_vars

SchemaCalled == fn = "generate_ui_schema"

StartsSection(fs, i) ==
    \/ fs[i].type = "title"
    \/ i > 1 /\ Abs(fs[i].bbox[2] - fs[i - 1].bbox[2]) > section_threshold

\* The places where a section is opened: the first field, and every start.
SectionStarts(fs) == {i \in 1..Len(fs) : i = 1 \/ StartsSection(fs, i)}

\* The last place of the section opened at place i.
SectionLast(fs, i) ==
    CHOOSE j \in i..Len(fs) :
        /\ \A m \in (i + 1)..j : ~StartsSection(fs, m)
        /\ j = Len(fs) \/ StartsSection(fs, j + 1)

SectionNamed(fs, i) ==
    IF fs[i].type = "title" THEN fs[i].label
    ELSE IF StartsSection(fs, i) THEN SectionName
    ELSE MainSectionName

GivesComponent(f) == f.type \in {"checkbox", "text_field", "table_cell"}

ComponentsIn(fs, i, j) ==
    LET kept == SelectSeq(SubSeq(fs, i, j), GivesComponent)
    IN  [k \in 1..Len(kept) |-> convert_field_to_ui(kept[k])]

\* The sections the scan opens, in order, each with the components it receives.
Opened(fs) ==
    LET starts == SectionStarts(fs) IN
    [k \in 1..Cardinality(starts) |->
        LET i == Nth(starts, k) IN
        [section |-> SectionNamed(fs, i), page |-> fs[i].page,
         fields |-> ComponentsIn(fs, i, SectionLast(fs, i))]]

\* The sections opened, without the last one when it received nothing.
Kept(opened) ==
    IF opened # <<>> /\ opened[Len(opened)].fields = <<>>
    THEN SubSeq(opened, 1, Len(opened) - 1)
    ELSE opened

SchemaOut == ret.out[1]

\* The components of a schema, section after section.
RECURSIVE AllComponents(_)
AllComponents(sections) ==
    IF sections = <<>> THEN <<>>
    ELSE sections[1].fields \o AllComponents(Tail(sections))

\* C16: scanning fields in (page, vertical position) order, a new section
\* starts exactly when the field is a title (named by its text) or a section
\* is open and the distance to the previously scanned field is more than 100
\* (named "Section"); a first field that is no title opens "Main Section"; a
\* distance of exactly 100 starts none; a title is in no component list;
\* label and non_fillable fields give no component.
C16_SectionBreaks ==
    SchemaCalled =>
        LET fs == SortFields(ret.given)
            comps == AllComponents(SchemaOut)
        IN  /\ SchemaOut = group_checkboxes_to_dropdowns(Kept(Opened(fs)))
            /\ \A c \in 1..Len(comps) :
                 /\ comps[c].type \in {"checkbox", "text_field", "dropdown"}
                 /\ \A i \in 1..Len(fs) :
                      fs[i].type \in NonFillable =>
                          /\ IdText(comps[c].id) # IdText(fs[i].id)
                          /\ IdText(comps[c].id) # IdText(DropdownId(fs[i].id))

\* C16's case: three text fields 100 and then 101 apart on one page: the
\* second stays in "Main Section", the third opens "Section".
C16_Witness ==
    /\ SchemaCalled
    /\ Len(ret.given) = 3
    /\ \A i \in 1..3 : ret.given[i].type = "text_field" /\ ret.given[i].page = 1
    /\ {ret.given[i].bbox[2] : i \in 1..3} = LineYs
    /\ Len(SchemaOut) = 2
    /\ SchemaOut[1].section = MainSectionName /\ Len(SchemaOut[1].fields) = 2
    /\ SchemaOut[2].section = SectionName /\ Len(SchemaOut[2].fields) = 1

\* C18 as stated: every section of the returned form_schema has at least one
\* component, whether it is the last section or not.
C18_NoEmptySection ==
    SchemaCalled => \A k \in 1..Len(SchemaOut) : SchemaOut[k].fields # <<>>

\* C18, amended: the last section opened is in the form_schema only if it has
\* at least one component; a section closed by a later title or gap is in it
\* whether it received components or not.
C18_OnlyLastEmptySectionDropped ==
    SchemaCalled =>
        LET opened == Opened(SortFields(ret.given)) IN
        /\ Len(SchemaOut) = Len(Kept(opened))
        /\ Len(opened) - Len(SchemaOut) \in {0, 1}
        /\ \A k \in 1..Len(SchemaOut) :
             /\ SchemaOut[k].section = opened[k].section
             /\ (SchemaOut[k].fields = <<>>) = (opened[k].fields = <<>>)
             /\ SchemaOut[k].fields = <<>> => k < Len(opened)
        /\ Len(opened) > Len(SchemaOut) => opened[Len(opened)].fields = <<>>

\* C18's case: a title right after a title, then a label: the first title's
\* section is returned empty, the second one's, the last, is dropped.
C18_Witness ==
    /\ SchemaCalled
    /\ Len(ret.given) = 3
    /\ ret.given[1].type = "title" /\ ret.given[2].type = "title"
    /\ ret.given[3].type = "label"
    /\ ret.given = SortFields(ret.given)
    /\ Len(SchemaOut) = 1 /\ SchemaOut[1].fields = <<>>

\* C19: every component id of the nested schema is a key of the field map
\* built by create_field_map from the same list.
C19_SchemaIdsInFieldMap ==
    SchemaCalled =>
        LET comps == AllComponents(SchemaOut)
            keys == {IdText(k) : k \in DOMAIN create_field_map(ret.given)}
        IN  \A c \in 1..Len(comps) : IdText(comps[c].id) \in keys

\* ============================================================ the font-fit loop
\* The sizes 6, 6.5, ..., 10.
FontGrid == {(h * Unit) \div 2 : h \in 12..20}

\* The box of the example polygon: 100 points wide, so that 95 points fit.
FontRect == BboxRect(ExamplePolygon)

\* What fitz.get_text_length may return for a size: under, at and over 95% of
\* the box's width.
TextWidths == {Points(94), Points(95), Points(96)}

AnnStr == <<"A", "n", "n">>

\* insert_text_in_box is called with a box, a text and, for every size, the
\* width the library measures for the text at that size.
InitFont ==
    /\ ReqIdle /\ magic_bound = FALSE
    /\ fn = "insert_text_in_box"
    /\ ret = [pos |-> "entry", font_size |-> Points(StartFontSize), decrements |-> 0,
              drawn |-> <<>>]
    /\ \/ arg = [rect |-> FontRect, text |-> <<>>, widths |-> [s \in FontGrid |-> 0]]
       \/ \E widths \in [FontGrid -> TextWidths] :
            arg = [rect |-> FontRect, text |-> AnnStr, widths |-> widths]

\* if not text: return; font_size = 10
FontEnter ==
    /\ ret.pos = "entry"
    /\ ret' = [ret EXCEPT !.pos = IF arg.text = <<>> THEN "done" ELSE "loop"]
    /\ UNCHANGED <<fn, arg, reqVars>>

\* One test of "while font_size > 6", and the body when it holds: break when
\* the measured width fits, else font_size -= 0.5.
FontLoopStep ==
    /\ ret.pos = "loop"
    /\ ret' = IF ret.font_size > Points(MinFontSize)
              THEN IF FitsWidth(arg.widths[ret.font_size], arg.rect)
                   THEN [ret EXCEPT !.pos = "insert"]
                   ELSE [ret EXCEPT !.font_size = @ - FontStep, !.decrements = @ + 1]
              ELSE [ret EXCEPT !.pos = "insert"]
    /\ UNCHANGED <<fn, arg, reqVars>>

\* text_y and page.insert_text((rect.x0 + 2, text_y), text, fontsize=font_size)
FontInsert ==
    /\ ret.pos = "insert"
    /\ ret' = [ret EXCEPT
                 !.pos = "done",
                 !.drawn = <<[op |-> "text",
                              at |-> <<arg.rect.x0 + Points(2),
                                       arg.rect.y0
                                         + (RectHeight(arg.rect) + ret.font_size) \div 2>>,
                              text |-> arg.text,
                              fontsize |-> ret.font_size]>>]
    /\ UNCHANGED <<fn, arg, reqVars>>

NextFont == FontEnter \/ FontLoopStep \/ FontInsert

\* The loop is straight-line code: a step that can be taken is taken.
SpecFont == InitFont /\ [][NextFont]_vars /\ WF_vars(NextFont)

\* The sizes above 6 at which the measured width is at most 95% of the box.
FittingSizes ==
    {s \in FontGrid : s > 6 * Unit /\ 100 * arg.widths[s] <= 95 * (arg.rect.x1 - arg.rect.x0)}

FontSettled ==
    /\ ret.pos \in {"insert", "done"} /\ arg.text # <<>>
    => /\ FittingSizes # {} =>
            /\ ret.font_size \in FittingSizes
            /\ \A s \in FittingSizes : s <= ret.font_size
       /\ FittingSizes = {} => ret.font_size = 6 * Unit
       /\ ret.pos = "done" =>
            /\ Len(ret.drawn) = 1
            /\ ret.drawn[1].text = arg.text
            /\ ret.drawn[1].fontsize = ret.font_size
            /\ ret.drawn[1].at[1] = arg.rect.x0 + 2 * Unit
            /\ 2 * ret.drawn[1].at[2]
                 = 2 * arg.rect.y0 + (arg.rect.y1 - arg.rect.y0) + ret.font_size

\* C17: the font-fit loop always terminates, after at most 8 decrements of
\* 0.5, with a size in {6, 6.5, ..., 10}: the largest size above 6 on that
\* grid whose measured width is at most 95% of the box's width when there is
\* one, and otherwise exactly 6, the text being inserted all the same, at
\* x = rect.x0 + 2 and y = rect.y0 + (rect.height + size) / 2.
C17_FontFitTerminates ==
    /\ [](/\ ret.font_size \in FontGrid
          /\ ret.decrements <= 8
          /\ 2 * ret.font_size = 20 * Unit - ret.decrements * Unit
          /\ FontSettled)
    /\ <>(ret.pos = "done")

\* C17's case: no size above 6 fits, the loop has gone down all 8 steps to 6
\* and the text has been inserted.
C17_Witness ==
    /\ fn = "insert_text_in_box" /\ ret.pos = "done"
    /\ arg.text # <<>>
    /\ FittingSizes = {}
    /\ ret.decrements = 8 /\ ret.font_size = 6 * Unit
    /\ Len(ret.drawn) = 1

====
